---- MODULE Spec2Model ----
(***************************************************************************)
(* State-machine model of the farm sensor pipeline (kasana-21/Aquaroot,    *)
(* src/farmie): LLMService (insight generation with static fallback),      *)
(* ModelManager (per-target predictions), AlertManager (threshold alerts)  *)
(* and the single-reading endpoint receive_sensor_data.                    *)
(*                                                                         *)
(* Conventions                                                             *)
(*  - A Python str is a sequence of chunks (TLA+ strings); a chunk is one  *)
(*    character where the code inspects characters ("_", " "), and a whole *)
(*    literal otherwise.                                                   *)
(*  - A Python dict is a sequence of entries [k, v] in insertion order.    *)
(*  - A float that the claims speak about (a confidence, a probability)    *)
(*    is kept in hundredths: 0.6 is 60.                                    *)
(*  - A handler runs atomically from op = "idle"; Return hands its result  *)
(*    to the caller and clears the per-call values.                        *)
(***************************************************************************)
EXTENDS Integers, Sequences, FiniteSets, TLC

VARIABLES
    openai_client,      \* LLMService.openai_client is set (llm.py:36,47)
    gemini_model,       \* LLMService.gemini_model is set (llm.py:37,59)
    models_dir,         \* the artifact files under ModelManager.models_dir
    models,             \* keys of ModelManager.models
    scalers,            \* keys of ModelManager.scalers
    metadata,           \* ModelManager.metadata['feature_columns'] (or empty)
    alert_thresholds,   \* AlertManager.alert_thresholds
    retraining_queue_file,  \* data/retraining_queue.json (feedback.py:296)
    background_tasks,   \* tasks the feedback handler handed to BackgroundTasks,
                        \* in order of submission, with their positions
    op,                 \* "idle", or the operation whose result is held
    arg,                \* the category, target or handler argument of the call
    input,              \* the other parameters of the call and what its
                        \* collaborators (providers, artifacts) do during it
    raised,             \* the operation ended by raising instead of returning
    insight,            \* dict returned by generate_*_insight
    calls,              \* calls to collaborators (providers, weather service)
                        \* made during the operation, in order
    prediction,         \* dict returned by predict_*
    alerts,             \* list returned by check_alerts
    response            \* outcome of an endpoint handler

vars == << openai_client, gemini_model, models_dir, models, scalers, metadata,
           alert_thresholds, retraining_queue_file, background_tasks, op, arg,
           input, raised, insight, calls, prediction, alerts, response >>

llmVars   == << openai_client, gemini_model >>
modelVars == << models_dir, models, scalers, metadata >>
feedbackVars == << retraining_queue_file, background_tasks >>
perCallVars == << op, arg, input, raised, insight, calls, prediction, alerts, response >>

\* Largest instant datetime.utcnow() is drawn from (instants are 0..MaxInstant).
MaxInstant == 1

Instants == 0 .. MaxInstant

Targets == {"irrigation", "crop_health", "yield"}

(***************************************************************************)
(* Python values                                                           *)
(***************************************************************************)

\* not s.strip(): every character of s is whitespace
IsBlank(s) == \A i \in DOMAIN s : s[i] = " "

RECURSIVE Join(_, _)
\* sep.join(parts)
Join(parts, sep) ==
    IF parts = <<>> THEN <<>>
    ELSE IF Len(parts) = 1 THEN parts[1]
    ELSE parts[1] \o sep \o Join(Tail(parts), sep)

RECURSIVE Replace(_, _, _)
\* s.replace(old, new) for a one-character old
Replace(s, old, new) ==
    IF s = <<>> THEN <<>>
    ELSE << (IF Head(s) = old THEN new ELSE Head(s)) >> \o Replace(Tail(s), old, new)

DigitChar == << "0", "1", "2", "3", "4", "5", "6", "7", "8", "9" >>

RECURSIVE Digits(_)
\* str(n) of an int
Digits(n) ==
    IF n < 0 THEN << "-" >> \o Digits(0 - n)
    ELSE IF n < 10 THEN << DigitChar[n + 1] >>
    ELSE Digits(n \div 10) \o << DigitChar[(n % 10) + 1] >>

\* str(x) of a non-negative float held in hundredths (60 is "0.6")
FloatStr(h) ==
    Digits(h \div 100) \o << "." >> \o
    (IF h % 10 = 0 THEN << DigitChar[((h % 100) \div 10) + 1] >>
     ELSE << DigitChar[((h % 100) \div 10) + 1], DigitChar[(h % 10) + 1] >>)

\* Scalars: [t, s, n] with t in {"str", "int", "float", "null"}.
SStr(s)   == [t |-> "str",   s |-> s,    n |-> 0]
SInt(n)   == [t |-> "int",   s |-> <<>>, n |-> n]
SNull     == [t |-> "null",  s |-> <<>>, n |-> 0]

\* Values: a scalar, or a list / dict of scalars; items are entries [k, v]
\* (k is the key of a dict entry and <<>> for a list element).
JStr(s)    == [t |-> "str",   s |-> s,    n |-> 0, items |-> <<>>]
JInt(n)    == [t |-> "int",   s |-> <<>>, n |-> n, items |-> <<>>]
JFloat(h)  == [t |-> "float", s |-> <<>>, n |-> h, items |-> <<>>]
JNull      == [t |-> "null",  s |-> <<>>, n |-> 0, items |-> <<>>]
JList(xs)  == [t |-> "list",  s |-> <<>>, n |-> 0,
               items |-> [i \in 1 .. Len(xs) |-> [k |-> <<>>, v |-> xs[i]]]]
JDict(kvs) == [t |-> "dict",  s |-> <<>>, n |-> 0, items |-> kvs]

Entry(k, v) == [k |-> k, v |-> v]

\* str(x) of a scalar; also of a Value that is a scalar
PyStr(x) ==
    CASE x.t = "str"   -> x.s
      [] x.t = "int"   -> Digits(x.n)
      [] x.t = "float" -> FloatStr(x.n)
      [] OTHER         -> << "None" >>

\* repr(x) of a scalar
PyRepr(x) == IF x.t = "str" THEN << "'" >> \o x.s \o << "'" >> ELSE PyStr(x)

\* str(v) of a Value
ValueStr(v) ==
    CASE v.t = "list" ->
           << "[" >> \o
           Join([i \in 1 .. Len(v.items) |-> PyRepr(v.items[i].v)], << ", " >>)
           \o << "]" >>
      [] v.t = "dict" ->
           << "{" >> \o
           Join([i \in 1 .. Len(v.items) |->
                    << "'" >> \o v.items[i].k \o << "'", ": " >>
                    \o PyRepr(v.items[i].v)], << ", " >>)
           \o << "}" >>
      [] OTHER -> PyStr(v)

\* repr(v) of a Value
ValueRepr(v) == IF v.t = "str" THEN PyRepr(v) ELSE ValueStr(v)

\* bool(v) of a Value that is neither a str nor a list
Truthy(v) ==
    CASE v.t = "null" -> FALSE
      [] v.t = "dict" -> v.items # <<>>
      [] OTHER        -> v.n # 0

\* Top-level dicts (a parsed JSON object, an insight): entries [k, v] with k a
\* TLA+ string and v a Value.
DictHas(d, k) == \E i \in DOMAIN d : d[i].k = k

\* d.get(k): None when the key is absent
DictGet(d, k) ==
    IF DictHas(d, k) THEN d[CHOOSE i \in DOMAIN d : d[i].k = k].v ELSE JNull

\* d[k] = v: in place for a present key, appended otherwise
DictSet(d, k, v) ==
    IF DictHas(d, k)
    THEN [i \in 1 .. Len(d) |-> IF d[i].k = k THEN Entry(k, v) ELSE d[i]]
    ELSE Append(d, Entry(k, v))

\* str(d) of a top-level dict
DictStr(d) ==
    << "{" >> \o
    Join([i \in 1 .. Len(d) |->
             << "'", d[i].k, "'", ": " >> \o ValueRepr(d[i].v)], << ", " >>)
    \o << "}" >>

\* datetime.utcnow().isoformat() at instant now
IsoFormat(now) == << "T" >> \o Digits(now)

(***************************************************************************)
(* LLMService (app/services/llm.py)                                        *)
(***************************************************************************)

\* the "confidence": 0.6 of every static fallback insight, in hundredths
FALLBACK_CONFIDENCE == 60

StrList(chunks) == JList([i \in 1 .. Len(chunks) |-> SStr(<< chunks[i] >>)])

FallbackEntry(type, content, recs, warning, now) ==
    << Entry("insight_type", JStr(<< type >>)),
       Entry("content", JStr(<< content >>)),
       Entry("recommendations", StrList(recs)),
       Entry("warnings", StrList(<< warning >>)),
       Entry("confidence", JFloat(FALLBACK_CONFIDENCE)),
       Entry("timestamp", JStr(IsoFormat(now))) >>

\* fallback_insights["irrigation"]
FallbackIrrigation(now) ==
    FallbackEntry("irrigation_recommendation",
        "Based on sensor data analysis, irrigation recommendations are generated using rule-based logic.",
        << "Monitor soil moisture levels regularly",
           "Consider weather conditions before irrigation",
           "Avoid over-irrigation to prevent waterlogging" >>,
        "LLM service unavailable - using fallback recommendations", now)

\* fallback_insights["crop_health"]
FallbackCropHealth(now) ==
    FallbackEntry("crop_health_assessment",
        "Crop health assessment based on sensor data patterns and historical trends.",
        << "Maintain optimal soil moisture levels",
           "Monitor temperature and humidity conditions",
           "Regular soil testing recommended" >>,
        "LLM service unavailable - using fallback assessment", now)

\* fallback_insights["yield"]
FallbackYield(now) ==
    FallbackEntry("yield_prediction",
        "Yield prediction based on current sensor data and environmental conditions.",
        << "Optimize irrigation schedule",
           "Monitor crop development stages",
           "Consider weather patterns for yield optimization" >>,
        "LLM service unavailable - using fallback prediction", now)

\* Mutant of generate_fallback_insight: the category is ignored.
generate_fallback_insight_any_category(insight_type, now) == FallbackIrrigation(now)

\* _generate_fallback_insight(context, insight_type):
\* fallback_insights.get(insight_type, fallback_insights["irrigation"])
generate_fallback_insight(insight_type, now) ==
    CASE insight_type = "crop_health" -> FallbackCropHealth(now)
      [] insight_type = "yield"       -> FallbackYield(now)
      [] OTHER                        -> FallbackIrrigation(now)

(* The text a provider returns, by what _parse_llm_response does with it:  *)
(*   none   the content is None (`in` raises TypeError)                     *)
(*   fence  the text holds "```json"                                        *)
(*   brace  the text holds "{" and "}"                                      *)
(*   wf     json.loads accepts the string cut out of the text              *)
(*   isObj  the JSON document is an object (otherwise .get raises)         *)
(*   obj    the object's entries                                           *)
RawText(none, fence, brace, wf, isObj, obj) ==
    [none |-> none, fence |-> fence, brace |-> brace, wf |-> wf,
     isObj |-> isObj, obj |-> obj]

\* llm.py:346-357: the string is cut out and json.loads returns a document
JsonLoads(content) ==
    /\ ~content.none
    /\ content.fence \/ content.brace
    /\ content.wf

\* llm.py:362-367: dict content flattened to "key: value; key: value"
FlattenContent(raw_content) ==
    Join([i \in 1 .. Len(raw_content.items) |->
             Replace(raw_content.items[i].k, "_", " ") \o << ":", " " >>
             \o PyStr(raw_content.items[i].v)],
         << ";", " " >>)

\* llm.py:370-379: summary built from the other keys of parsed
SummaryContent(parsed) ==
    LET part1 == IF DictHas(parsed, "current_crop_health")
                 THEN << << "Current crop health score is " >>
                         \o ValueStr(DictGet(parsed, "current_crop_health"))
                         \o << "." >> >>
                 ELSE <<>>
        part2 == IF DictHas(parsed, "yield_prediction_analysis")
                 THEN << ValueStr(DictGet(parsed, "yield_prediction_analysis")) >>
                 ELSE <<>>
        summary_parts == IF part1 \o part2 = <<>> THEN << DictStr(parsed) >>
                         ELSE part1 \o part2
    IN  Join(summary_parts, << " " >>)

\* llm.py:361-379: parsed["content"] made a string
NormalizeContent(parsed) ==
    LET raw_content == DictGet(parsed, "content")
    IN  IF raw_content.t = "dict"
        THEN DictSet(parsed, "content", JStr(FlattenContent(raw_content)))
        ELSE IF raw_content.t # "str" \/ IsBlank(raw_content.s)
        THEN DictSet(parsed, "content", JStr(SummaryContent(parsed)))
        ELSE parsed

\* llm.py:383-389: parsed[key] made a list of strings
NormalizeList(parsed, key) ==
    LET value == IF DictHas(parsed, key) THEN DictGet(parsed, key) ELSE JList(<<>>)
    IN  CASE value.t = "str"  -> DictSet(parsed, key, JList(<< SStr(value.s) >>))
          [] value.t = "list" ->
               DictSet(parsed, key,
                   JList([i \in 1 .. Len(value.items) |->
                             SStr(PyStr(value.items[i].v))]))
          [] OTHER ->
               DictSet(parsed, key,
                   IF Truthy(value) THEN JList(<< SStr(ValueStr(value)) >>)
                   ELSE JList(<<>>))

\* _parse_llm_response(content, insight_type)
parse_llm_response(content, insight_type, now) ==
    IF ~JsonLoads(content) \/ ~content.isObj
    THEN generate_fallback_insight(insight_type, now)
    ELSE DictSet(
             NormalizeList(
                 NormalizeList(NormalizeContent(content.obj), "recommendations"),
                 "warnings"),
             "timestamp", JStr(IsoFormat(now)))

\* A provider call either raises or returns a text.
Outcome(raises, text) == [raises |-> raises, text |-> text]

NoText == RawText(TRUE, FALSE, FALSE, FALSE, FALSE, <<>>)

Call(provider, out) ==
    [provider |-> provider,
     outcome  |-> IF out.raises THEN "raised" ELSE "returned",
     text     |-> IF out.raises THEN NoText ELSE out.text]

\* _generate_with_openai / _generate_with_gemini: the value returned, or the
\* exception that leaves the method (raised |-> TRUE)
generate_with(provider, insight_type, out, now) ==
    [raised  |-> out.raises,
     insight |-> IF out.raises THEN <<>>
                 ELSE parse_llm_response(out.text, insight_type, now),
     calls   |-> << Call(provider, out) >>]

\* Mutant of generate_insight: a provider that raised or whose text does not
\* parse is followed by the next configured provider.
generate_insight_next_provider(insight_type, env, now) ==
    LET fb == [raised |-> FALSE,
               insight |-> generate_fallback_insight(insight_type, now),
               calls |-> <<>>]
        a  == generate_with("openai", insight_type, env.openai, now)
        b  == generate_with("gemini", insight_type, env.gemini, now)
        aOk == ~env.openai.raises /\ JsonLoads(env.openai.text) /\ env.openai.text.isObj
        second(first) ==
            IF gemini_model
            THEN [raised |-> FALSE,
                  insight |-> IF b.raised THEN fb.insight ELSE b.insight,
                  calls |-> first \o b.calls]
            ELSE [fb EXCEPT !.calls = first]
    IN  IF openai_client THEN (IF aOk THEN a ELSE second(a.calls))
        ELSE second(<<>>)

\* Mutant of generate_insight: no except block, a provider's exception leaves
\* the call.
generate_insight_propagates(insight_type, env, now) ==
    IF openai_client THEN generate_with("openai", insight_type, env.openai, now)
    ELSE IF gemini_model THEN generate_with("gemini", insight_type, env.gemini, now)
    ELSE [raised |-> FALSE,
          insight |-> generate_fallback_insight(insight_type, now),
          calls |-> <<>>]

\* generate_irrigation_insight / generate_crop_health_insight /
\* generate_yield_insight: the try block dispatches on the configured client,
\* the except block returns the fallback.  env gives the outcome each
\* provider would have if it were called.
generate_insight(insight_type, env, now) ==
    LET attempt ==
            IF openai_client THEN generate_with("openai", insight_type, env.openai, now)
            ELSE IF gemini_model THEN generate_with("gemini", insight_type, env.gemini, now)
            ELSE [raised |-> FALSE,
                  insight |-> generate_fallback_insight(insight_type, now),
                  calls |-> <<>>]
    IN  IF attempt.raised
        THEN [raised |-> FALSE,
              insight |-> generate_fallback_insight(insight_type, now),
              calls |-> attempt.calls]
        ELSE attempt

generate_irrigation_insight(env, now)  == generate_insight("irrigation", env, now)

generate_crop_health_insight(env, now) == generate_insight("crop_health", env, now)

generate_yield_insight(env, now)       == generate_insight("yield", env, now)

(***************************************************************************)
(* ModelManager (app/utils/helpers.py)                                     *)
(***************************************************************************)

\* The artifact files in the order _load_models opens them.
ArtifactFiles ==
    << "model_metadata.pkl",
       "irrigation_model.pkl", "crop_health_model.pkl", "yield_model.pkl",
       "irrigation_scaler.pkl", "crop_health_scaler.pkl", "yield_scaler.pkl" >>

\* A file is absent, loads ("ok"), or makes joblib.load raise ("corrupt").
FileStatus == {"absent", "ok", "corrupt"}

ArtifactFileSet == {ArtifactFiles[i] : i \in DOMAIN ArtifactFiles}

ModelsDirs == [ArtifactFileSet -> FileStatus]

\* the columns train.py stores as metadata['feature_columns']
FeatureColumns ==
    << "temperature", "humidity", "soil_moisture", "soil_temperature",
       "precipitation", "wind_speed", "temp_humidity_interaction",
       "moisture_temp_ratio", "hour", "day_of_year", "month" >>

\* number of columns the scalers and models are fitted on
N_FEATURES == 11

\* _load_models: file number i is loaded when it exists and no earlier
\* joblib.load raised (one try block wraps every load)
FileLoaded(dir, i) ==
    /\ dir[ArtifactFiles[i]] = "ok"
    /\ \A j \in 1 .. (i - 1) : dir[ArtifactFiles[j]] # "corrupt"

ModelFileIndex(target) ==
    CASE target = "irrigation" -> 2 [] target = "crop_health" -> 3 [] OTHER -> 4

ScalerFileIndex(target) ==
    CASE target = "irrigation" -> 5 [] target = "crop_health" -> 6 [] OTHER -> 7

\* _load_models: the fields of ModelManager after __init__
load_models(dir) ==
    [metadata |-> IF FileLoaded(dir, 1) THEN FeatureColumns ELSE <<>>,
     models   |-> {t \in Targets : FileLoaded(dir, ModelFileIndex(t))},
     scalers  |-> {t \in Targets : FileLoaded(dir, ScalerFileIndex(t))}]

\* confidence 0.5 of a default or error prediction, in hundredths
DEGRADED_CONFIDENCE == 50

\* confidence 0.8 of a regression prediction, in hundredths
REGRESSION_CONFIDENCE == 80

\* neutral predicted_value of each target
NEUTRAL_IRRIGATION == 0

NEUTRAL_CROP_HEALTH == 50

NEUTRAL_YIELD == 2000

NeutralValue(target) ==
    CASE target = "irrigation"  -> NEUTRAL_IRRIGATION
      [] target = "crop_health" -> NEUTRAL_CROP_HEALTH
      [] OTHER                  -> NEUTRAL_YIELD

DefaultFeatures == << "temperature", "humidity", "soil_moisture", "soil_temperature" >>

Prediction(value, confidence, name, used) ==
    [predicted_value |-> value, confidence |-> confidence,
     model_name |-> name, features_used |-> used]

\* the dict returned when the model or the scaler of target is not loaded
DefaultPrediction(target) ==
    Prediction(NeutralValue(target), DEGRADED_CONFIDENCE, "default", DefaultFeatures)

\* the dict returned by the except block
ErrorPrediction(target) ==
    Prediction(NeutralValue(target), DEGRADED_CONFIDENCE, "error", <<>>)

\* scaler.transform(features) raises: no sample, or a sample that has not the
\* N_FEATURES columns the scaler was fitted on
TransformRaises(features) ==
    \/ features = <<>>
    \/ \E i \in DOMAIN features : Len(features[i]) # N_FEATURES

Max(S) == CHOOSE x \in S : \A y \in S : y <= x

\* a call that returns value / a call that an exception leaves
Returns(value) == [raised |-> FALSE, value |-> value]

Raises == [raised |-> TRUE, value |-> <<>>]

\* Mutant of NotLoaded: the default is returned only when both are missing.
NotLoaded_both_missing(target) == target \notin models /\ target \notin scalers

\* (target not in self.models or target not in self.scalers)
NotLoaded(target) == target \notin models \/ target \notin scalers

(* What the loaded artifacts of a target do on one call:                   *)
(*   fault  "none", or the call that raises for a reason of its own        *)
(*          ("transform", "predict", "predict_proba")                      *)
(*   value  the model's prediction for the first sample                    *)
(*   proba  predict_proba's rows (<<>>: None or no row)                    *)
Inference(fault, value, proba) == [fault |-> fault, value |-> value, proba |-> proba]

\* Mutant of predict_irrigation_need: the constant of the regressors is used
\* as the classifier's confidence.
predict_irrigation_need_constant_confidence(features, inf) ==
    IF NotLoaded("irrigation") THEN Returns(DefaultPrediction("irrigation"))
    ELSE IF TransformRaises(features) \/ inf.fault # "none"
    THEN Returns(ErrorPrediction("irrigation"))
    ELSE Returns(Prediction(inf.value, REGRESSION_CONFIDENCE, "irrigation_model", metadata))

\* predict_irrigation_need(features)
predict_irrigation_need(features, inf) ==
    IF NotLoaded("irrigation") THEN Returns(DefaultPrediction("irrigation"))
    ELSE IF \/ TransformRaises(features)
            \/ inf.fault # "none"
            \/ (inf.proba # <<>> /\ inf.proba[1] = <<>>)     \* np.max of no class
    THEN Returns(ErrorPrediction("irrigation"))
    ELSE Returns(Prediction(inf.value,
                    IF inf.proba # <<>>
                    THEN Max({inf.proba[1][c] : c \in DOMAIN inf.proba[1]})
                    ELSE DEGRADED_CONFIDENCE,
                    "irrigation_model", metadata))

\* Mutant of predict_crop_health: the features are scaled before the try block.
predict_crop_health_scaling_outside_try(features, inf) ==
    IF NotLoaded("crop_health") THEN Returns(DefaultPrediction("crop_health"))
    ELSE IF TransformRaises(features) \/ inf.fault = "transform" THEN Raises
    ELSE IF inf.fault = "predict" THEN Returns(ErrorPrediction("crop_health"))
    ELSE Returns(Prediction(inf.value, REGRESSION_CONFIDENCE, "crop_health_model", metadata))

\* predict_crop_health(features)
predict_crop_health(features, inf) ==
    IF NotLoaded("crop_health") THEN Returns(DefaultPrediction("crop_health"))
    ELSE IF TransformRaises(features) \/ inf.fault \in {"transform", "predict"}
    THEN Returns(ErrorPrediction("crop_health"))
    ELSE Returns(Prediction(inf.value, REGRESSION_CONFIDENCE, "crop_health_model", metadata))

\* predict_yield(features)
predict_yield(features, inf) ==
    IF NotLoaded("yield") THEN Returns(DefaultPrediction("yield"))
    ELSE IF TransformRaises(features) \/ inf.fault \in {"transform", "predict"}
    THEN Returns(ErrorPrediction("yield"))
    ELSE Returns(Prediction(inf.value, REGRESSION_CONFIDENCE, "yield_model", metadata))

(***************************************************************************)
(* AlertManager (app/utils/helpers.py)                                     *)
(***************************************************************************)

\* keys of alert_thresholds in insertion order
ThresholdKeys == << "temperature", "humidity", "soil_moisture", "soil_temperature" >>

ThresholdKeySet == {ThresholdKeys[i] : i \in DOMAIN ThresholdKeys}

TEMPERATURE_MIN == 5

TEMPERATURE_MAX == 35

HUMIDITY_MIN == 20

HUMIDITY_MAX == 90

SOIL_MOISTURE_MIN == 20

SOIL_MOISTURE_MAX == 80

SOIL_TEMPERATURE_MIN == 5

SOIL_TEMPERATURE_MAX == 30

Threshold(lo, hi) == [min |-> lo, max |-> hi]

\* AlertManager.__init__
DefaultThresholds ==
    [k \in ThresholdKeySet |->
        CASE k = "temperature"   -> Threshold(TEMPERATURE_MIN, TEMPERATURE_MAX)
          [] k = "humidity"      -> Threshold(HUMIDITY_MIN, HUMIDITY_MAX)
          [] k = "soil_moisture" -> Threshold(SOIL_MOISTURE_MIN, SOIL_MOISTURE_MAX)
          [] OTHER               -> Threshold(SOIL_TEMPERATURE_MIN, SOIL_TEMPERATURE_MAX)]

\* Mutant of LowAlert: a value below the minimum is a critical alert.
LowAlert_critical(sensor_type, value, threshold, now) ==
    [type |-> "low_threshold", sensor_type |-> sensor_type, value |-> value,
     threshold |-> threshold,
     message |-> << sensor_type, " is below minimum threshold" >>,
     severity |-> "critical", timestamp |-> IsoFormat(now)]

LowAlert(sensor_type, value, threshold, now) ==
    [type |-> "low_threshold", sensor_type |-> sensor_type, value |-> value,
     threshold |-> threshold,
     message |-> << sensor_type, " is below minimum threshold" >>,
     severity |-> "warning", timestamp |-> IsoFormat(now)]

HighAlert(sensor_type, value, threshold, now) ==
    [type |-> "high_threshold", sensor_type |-> sensor_type, value |-> value,
     threshold |-> threshold,
     message |-> << sensor_type, " is above maximum threshold" >>,
     severity |-> "critical", timestamp |-> IsoFormat(now)]

\* Mutant of AlertsFor: a value on a threshold counts as outside the range.
AlertsFor_inclusive(thresholds, sensor_type, sensor_data, now) ==
    IF sensor_type \notin DOMAIN sensor_data THEN <<>>
    ELSE LET value == sensor_data[sensor_type]
         IN  (IF value <= thresholds[sensor_type].min
              THEN << LowAlert(sensor_type, value, thresholds[sensor_type].min, now) >>
              ELSE <<>>)
             \o
             (IF value >= thresholds[sensor_type].max
              THEN << HighAlert(sensor_type, value, thresholds[sensor_type].max, now) >>
              ELSE <<>>)

\* the alerts check_alerts appends for one key of alert_thresholds
AlertsFor(thresholds, sensor_type, sensor_data, now) ==
    IF sensor_type \notin DOMAIN sensor_data THEN <<>>
    ELSE LET value == sensor_data[sensor_type]
         IN  (IF value < thresholds[sensor_type].min
              THEN << LowAlert(sensor_type, value, thresholds[sensor_type].min, now) >>
              ELSE <<>>)
             \o
             (IF value > thresholds[sensor_type].max
              THEN << HighAlert(sensor_type, value, thresholds[sensor_type].max, now) >>
              ELSE <<>>)

RECURSIVE AlertsFrom(_, _, _, _)
AlertsFrom(thresholds, i, sensor_data, now) ==
    IF i > Len(ThresholdKeys) THEN <<>>
    ELSE AlertsFor(thresholds, ThresholdKeys[i], sensor_data, now)
         \o AlertsFrom(thresholds, i + 1, sensor_data, now)

\* check_alerts(sensor_data): sensor_data maps sensor-type keys to values
check_alerts(thresholds, sensor_data, now) == AlertsFrom(thresholds, 1, sensor_data, now)

\* Mutant of update_thresholds: an unknown sensor type gets an entry too.
update_thresholds_any_type(thresholds, sensor_type, min_val, max_val) ==
    [k \in DOMAIN thresholds \cup {sensor_type} |->
        IF k = sensor_type THEN Threshold(min_val, max_val) ELSE thresholds[k]]

\* update_thresholds(sensor_type, min_val, max_val): the table afterwards
update_thresholds(thresholds, sensor_type, min_val, max_val) ==
    IF sensor_type \in DOMAIN thresholds
    THEN [thresholds EXCEPT ![sensor_type] = Threshold(min_val, max_val)]
    ELSE thresholds

(***************************************************************************)
(* Per-call values                                                         *)
(***************************************************************************)

NoPrediction == Prediction(0, 0, "none", <<>>)

NoResponse == [status |-> "none"]

Idle ==
    /\ op = "idle"
    /\ arg = "none"
    /\ input = <<>>
    /\ raised = FALSE
    /\ insight = <<>>
    /\ calls = <<>>
    /\ prediction = NoPrediction
    /\ alerts = <<>>
    /\ response = NoResponse

\* the queue file of a fresh data directory
AbsentFile == [state |-> "absent", queue |-> <<>>]

\* no feedback was submitted yet
NoFeedback ==
    /\ retraining_queue_file = AbsentFile
    /\ background_tasks = <<>>

\* The result is handed to the caller; the per-call values go out of scope.
Return ==
    /\ op # "idle"
    /\ op' = "idle"
    /\ arg' = "none"
    /\ input' = <<>>
    /\ raised' = FALSE
    /\ insight' = <<>>
    /\ calls' = <<>>
    /\ prediction' = NoPrediction
    /\ alerts' = <<>>
    /\ response' = NoResponse
    /\ UNCHANGED << feedbackVars, llmVars, modelVars, alert_thresholds >>

(***************************************************************************)
(* LLMService: calls and the provider behaviours they are run against      *)
(***************************************************************************)

UnderscoreKey == << "s", "o", "i", "l", "_", "p", "H" >>

ContentFrags ==
    { <<>>,
      << Entry("content", JStr(<< "Irrigate", " ", "tomorrow." >>)) >>,
      << Entry("content", JStr(<<>>)) >>,
      << Entry("content", JStr(<< " ", " " >>)) >>,
      << Entry("content", JDict(<<>>)) >>,
      << Entry("content", JDict(<< Entry(<< "a" >>, SInt(1)), Entry(<< "b" >>, SInt(2)) >>)) >>,
      << Entry("content", JDict(<< Entry(UnderscoreKey, SStr(<< "low" >>)) >>)) >>,
      << Entry("content", JInt(7)) >>,
      << Entry("content", JNull) >>,
      << Entry("content", JList(<< SStr(<< "x" >>) >>)) >> }

RecommendationFrags ==
    { <<>>,
      << Entry("recommendations", JStr(<< "Water", " ", "now" >>)) >>,
      << Entry("recommendations", JList(<< SStr(<< "Mulch" >>), SInt(3), SNull >>)) >>,
      << Entry("recommendations", JNull) >>,
      << Entry("recommendations", JInt(3)) >>,
      << Entry("recommendations", JDict(<< Entry(<< "a" >>, SInt(1)) >>)) >> }

WarningFrags ==
    { <<>>,
      << Entry("warnings", JStr(<< "Frost" >>)) >>,
      << Entry("warnings", JList(<<>>)) >>,
      << Entry("warnings", JInt(0)) >> }

MetaFrags ==
    { <<>>,
      << Entry("insight_type", JStr(<< "advice" >>)), Entry("confidence", JFloat(90)) >>,
      << Entry("insight_type", JStr(<< "advice" >>)), Entry("confidence", JStr(<< "high" >>)) >>,
      << Entry("confidence", JFloat(90)) >> }

SecondaryFrags ==
    { <<>>,
      << Entry("current_crop_health", JInt(80)) >>,
      << Entry("yield_prediction_analysis", JStr(<<>>)) >>,
      << Entry("yield_prediction_analysis", JStr(<< "Good" >>)) >>,
      << Entry("current_crop_health", JInt(80)),
         Entry("yield_prediction_analysis", JStr(<< "Good" >>)) >> }

GoodContent == << Entry("content", JStr(<< "Irrigate", " ", "tomorrow." >>)) >>

FullMeta ==
    << Entry("insight_type", JStr(<< "advice" >>)), Entry("confidence", JFloat(90)) >>

\* JSON objects a provider may answer with
ProviderObjects ==
    {m \o c \o SubSeq(FullMeta, 2, 2) : m \in {<<>>, SubSeq(FullMeta, 1, 1)},
                                        c \in ContentFrags}
    \cup {c \o r \o w \o m : c \in {GoodContent}, r \in RecommendationFrags,
                             w \in WarningFrags, m \in MetaFrags}
    \cup {c \o x : c \in {<<>>, << Entry("content", JStr(<< " " >>)) >>},
                   x \in SecondaryFrags}

GoodObject ==
    FullMeta \o GoodContent
    \o << Entry("recommendations", JList(<< SStr(<< "Mulch" >>) >>)),
          Entry("warnings", JList(<<>>)) >>

\* texts a provider may return
ProviderTexts ==
    { RawText(TRUE, FALSE, FALSE, FALSE, FALSE, <<>>),     \* None
      RawText(FALSE, FALSE, FALSE, FALSE, FALSE, <<>>),    \* prose, no JSON
      RawText(FALSE, FALSE, TRUE, FALSE, FALSE, <<>>),     \* braces, not JSON
      RawText(FALSE, TRUE, FALSE, FALSE, FALSE, <<>>),     \* fenced, not JSON
      RawText(FALSE, TRUE, FALSE, TRUE, FALSE, <<>>),      \* fenced JSON list
      RawText(FALSE, TRUE, TRUE, TRUE, TRUE, GoodObject) } \* fenced JSON object
    \cup {RawText(FALSE, FALSE, TRUE, TRUE, TRUE, o) : o \in ProviderObjects}

GoodText == RawText(FALSE, FALSE, TRUE, TRUE, TRUE, GoodObject)

ProviderOutcomes ==
    {Outcome(TRUE, NoText)} \cup {Outcome(FALSE, t) : t \in ProviderTexts \cup {GoodText}}

CoreOutcomes == {Outcome(TRUE, NoText), Outcome(FALSE, GoodText)}

\* what the two providers would do if called during one generate_*_insight
ProviderEnvs ==
    {[openai |-> a, gemini |-> b] : a \in ProviderOutcomes, b \in CoreOutcomes}
    \cup {[openai |-> a, gemini |-> b] : a \in CoreOutcomes, b \in ProviderOutcomes}

GenerateInsight(insight_type, r) ==
    /\ op' = "generate_insight"
    /\ arg' = insight_type
    /\ input' = <<>>
    /\ raised' = r.raised
    /\ insight' = r.insight
    /\ calls' = r.calls
    /\ UNCHANGED << feedbackVars, llmVars, modelVars, alert_thresholds, prediction, alerts, response >>

GenerateIrrigationInsight ==
    /\ op = "idle"
    /\ \E env \in ProviderEnvs, now \in Instants :
          GenerateInsight("irrigation", generate_irrigation_insight(env, now))

GenerateCropHealthInsight ==
    /\ op = "idle"
    /\ \E env \in ProviderEnvs, now \in Instants :
          GenerateInsight("crop_health", generate_crop_health_insight(env, now))

GenerateYieldInsight ==
    /\ op = "idle"
    /\ \E env \in ProviderEnvs, now \in Instants :
          GenerateInsight("yield", generate_yield_insight(env, now))

\* _load_models has run on a directory without artifacts
InitNoModels ==
    /\ models_dir = [f \in ArtifactFileSet |-> "absent"]
    /\ models = {}
    /\ scalers = {}
    /\ metadata = <<>>

\* LLMService.__init__ / _initialize_clients: each client is set when its
\* library and API key are there
InitLLM ==
    /\ openai_client \in BOOLEAN
    /\ gemini_model \in BOOLEAN

InitInsight ==
    /\ InitLLM
    /\ InitNoModels
    /\ alert_thresholds = DefaultThresholds
    /\ Idle
    /\ NoFeedback

NextInsight ==
    \/ GenerateIrrigationInsight
    \/ GenerateCropHealthInsight
    \/ GenerateYieldInsight
    \/ Return

SpecInsight == InitInsight /\ [][NextInsight]_vars

(***************************************************************************)
(* Claims about insight generation (checked under SpecInsight)             *)
(***************************************************************************)

InsightDone == op = "generate_insight"

\* the text cannot be parsed into a JSON object
Unparsable(text) ==
    text.none \/ ~(text.fence \/ text.brace) \/ ~text.wf \/ ~text.isObj

IsStrList(v) == v.t = "list" /\ \A i \in DOMAIN v.items : v.items[i].v.t = "str"

CannedType(category) ==
    CASE category = "irrigation"  -> "irrigation_recommendation"
      [] category = "crop_health" -> "crop_health_assessment"
      [] category = "yield"       -> "yield_prediction"

CannedWarning(category) ==
    CASE category = "irrigation"  -> "LLM service unavailable - using fallback recommendations"
      [] category = "crop_health" -> "LLM service unavailable - using fallback assessment"
      [] category = "yield"       -> "LLM service unavailable - using fallback prediction"

CannedFirstRecommendation(category) ==
    CASE category = "irrigation"  -> "Monitor soil moisture levels regularly"
      [] category = "crop_health" -> "Maintain optimal soil moisture levels"
      [] category = "yield"       -> "Optimize irrigation schedule"

\* ins is the canned insight of the category
IsStaticFallback(ins, category) ==
    /\ DictGet(ins, "insight_type") = JStr(<< CannedType(category) >>)
    /\ DictGet(ins, "confidence") = JFloat(60)
    /\ DictGet(ins, "warnings") = JList(<< SStr(<< CannedWarning(category) >>) >>)
    /\ DictGet(ins, "recommendations").t = "list"
    /\ Len(DictGet(ins, "recommendations").items) = 3
    /\ DictGet(ins, "recommendations").items[1].v
           = SStr(<< CannedFirstRecommendation(category) >>)
    /\ DictGet(ins, "content").t = "str"
    /\ DictGet(ins, "content").s # <<>>

\* C2 (as claimed): the primary provider is attempted first, and when it is
\* configured and its call raises, the configured secondary provider is
\* attempted before the static fallback is returned.
C2_SecondaryAttemptedAfterPrimaryFails ==
    InsightDone =>
        /\ (openai_client => calls # <<>> /\ calls[1].provider = "openai")
        /\ (openai_client /\ gemini_model /\ calls # <<>> /\ calls[1].outcome = "raised"
               => Len(calls) >= 2 /\ calls[2].provider = "gemini")

\* C3: within one generate-insight call no provider is called after a provider
\* has returned a response, and a returned response that cannot be parsed
\* gives the static fallback insight of the category.
C3_NoProviderAfterResponse ==
    InsightDone =>
        \A i \in DOMAIN calls :
            calls[i].outcome = "returned" =>
                /\ i = Len(calls)
                /\ (Unparsable(calls[i].text) => IsStaticFallback(insight, arg))

\* C3 witness: the primary provider returned an unparsable text while the
\* secondary provider is configured.
C3_Witness ==
    /\ InsightDone
    /\ openai_client /\ gemini_model
    /\ Len(calls) = 1
    /\ calls[1].provider = "openai"
    /\ calls[1].outcome = "returned"
    /\ Unparsable(calls[1].text)

\* C4 (as claimed): every returned insight has a non-empty content string and
\* recommendations and warnings that are lists of strings.
C4_InsightSchema ==
    InsightDone =>
        /\ DictHas(insight, "content")
        /\ DictGet(insight, "content").t = "str"
        /\ DictGet(insight, "content").s # <<>>
        /\ IsStrList(DictGet(insight, "recommendations"))
        /\ IsStrList(DictGet(insight, "warnings"))

\* C5 (as claimed): every returned insight carries insight_type, content,
\* recommendations, warnings and a numeric confidence.
C5_FullyPopulated ==
    InsightDone =>
        /\ \A k \in {"insight_type", "content", "recommendations", "warnings",
                     "confidence"} : DictHas(insight, k)
        /\ DictGet(insight, "confidence").t \in {"int", "float"}

\* C6: when no provider is configured, when the provider call raises, and when
\* the provider output is unparsable, the insight is the category's canned
\* insight: confidence 0.6, the fixed recommendations, the warning that the
\* LLM service is unavailable.
C6_StaticFallback ==
    /\ InsightDone
    /\ \/ (~openai_client /\ ~gemini_model)
       \/ (calls # <<>> /\ calls[Len(calls)].outcome = "raised")
       \/ (calls # <<>> /\ calls[Len(calls)].outcome = "returned"
                        /\ Unparsable(calls[Len(calls)].text))
    => IsStaticFallback(insight, arg)

\* C6 witness: a configured provider raised during a yield insight.
C6_Witness ==
    /\ InsightDone
    /\ arg = "yield"
    /\ calls # <<>>
    /\ calls[1].outcome = "raised"
    /\ IsStaticFallback(insight, "yield")

(***************************************************************************)
(* ModelManager: calls, feature inputs and artifact behaviours             *)
(***************************************************************************)

ExampleRow == << 20, 50, 50, 18, 0, 3, 10, 2, 14, 305, 11 >>

\* feature arguments: no sample, an empty sample, a short sample, full samples
FeatureInputs ==
    { <<>>, << <<>> >>, << << 20, 50, 50 >> >>, << ExampleRow >>,
      << ExampleRow, ExampleRow >> }

\* class probabilities (hundredths) a fitted classifier reports for a sample
ProbaRows == { << 50, 50 >>, << 30, 70 >>, << 91, 9 >>, << 100 >> }

Inferences(target) ==
    IF target = "irrigation"
    THEN {Inference("none", v, << row >>) : v \in {0, 1}, row \in ProbaRows}
         \cup {Inference(f, 0, << << 50, 50 >> >>) :
                  f \in {"transform", "predict", "predict_proba"}}
    ELSE {Inference("none", v, <<>>) :
             v \in IF target = "crop_health" THEN {35, 50, 82} ELSE {1500, 2000, 3100}}
         \cup {Inference(f, 0, <<>>) : f \in {"transform", "predict"}}

Predict(target, features, inf, r) ==
    /\ op' = "predict"
    /\ arg' = target
    /\ input' = [features |-> features, inf |-> inf]
    /\ raised' = r.raised
    /\ prediction' = IF r.raised THEN NoPrediction ELSE r.value
    /\ UNCHANGED << feedbackVars, llmVars, modelVars, alert_thresholds, insight, calls, alerts,
                    response >>

PredictIrrigationNeed ==
    /\ op = "idle"
    /\ \E features \in FeatureInputs, inf \in Inferences("irrigation") :
          Predict("irrigation", features, inf, predict_irrigation_need(features, inf))

PredictCropHealth ==
    /\ op = "idle"
    /\ \E features \in FeatureInputs, inf \in Inferences("crop_health") :
          Predict("crop_health", features, inf, predict_crop_health(features, inf))

PredictYield ==
    /\ op = "idle"
    /\ \E features \in FeatureInputs, inf \in Inferences("yield") :
          Predict("yield", features, inf, predict_yield(features, inf))

\* ModelManager.__init__: _load_models has run on the artifact directory
InitModels(dirs) ==
    /\ models_dir \in dirs
    /\ models = load_models(models_dir).models
    /\ scalers = load_models(models_dir).scalers
    /\ metadata = load_models(models_dir).metadata

InitPredict ==
    /\ openai_client = FALSE
    /\ gemini_model = FALSE
    /\ InitModels(ModelsDirs)
    /\ alert_thresholds = DefaultThresholds
    /\ Idle
    /\ NoFeedback

NextPredict ==
    \/ PredictIrrigationNeed
    \/ PredictCropHealth
    \/ PredictYield
    \/ Return

SpecPredict == InitPredict /\ [][NextPredict]_vars

(***************************************************************************)
(* Claims about predictions (checked under SpecPredict)                    *)
(***************************************************************************)

PredictDone == op = "predict"

\* the call met a failure in scaling or inference
InferenceFailed ==
    \/ input.features = <<>>
    \/ \E i \in DOMAIN input.features : Len(input.features[i]) # 11
    \/ input.inf.fault \in {"transform", "predict"}
    \/ (arg = "irrigation" /\ input.inf.fault = "predict_proba")

\* C7: when the model or the scaler of a target is not loaded, predict returns
\* model_name "default", confidence 0.5 and the neutral value of the target,
\* for every feature input and whatever is loaded for the other targets.
C7_DefaultWhenNotLoaded ==
    PredictDone /\ (arg \notin models \/ arg \notin scalers) =>
        /\ ~raised
        /\ prediction.model_name = "default"
        /\ prediction.confidence = 50
        /\ prediction.predicted_value =
               (CASE arg = "irrigation" -> 0 [] arg = "crop_health" -> 50
                  [] arg = "yield" -> 2000)

\* C7 witness: the yield model is loaded without its scaler while irrigation
\* is fully loaded, and predict_yield ran on a full sample.
C7_Witness ==
    /\ PredictDone
    /\ arg = "yield"
    /\ "yield" \in models /\ "yield" \notin scalers
    /\ "irrigation" \in models /\ "irrigation" \in scalers
    /\ Len(input.features) = 1 /\ Len(input.features[1]) = 11
    /\ prediction.model_name = "default"

\* C8: no predict_* call propagates an exception; a failure in scaling or
\* inference with loaded artifacts yields model_name "error", confidence 0.5
\* and the neutral value of the target.
C8_NeverRaises ==
    PredictDone =>
        /\ ~raised
        /\ (arg \in models /\ arg \in scalers /\ InferenceFailed =>
               /\ prediction.model_name = "error"
               /\ prediction.confidence = 50
               /\ prediction.predicted_value =
                      (CASE arg = "irrigation" -> 0 [] arg = "crop_health" -> 50
                         [] arg = "yield" -> 2000))

\* C8 witness: crop_health is loaded and predict_crop_health got an empty
\* feature vector.
C8_Witness ==
    /\ PredictDone
    /\ arg = "crop_health"
    /\ "crop_health" \in models /\ "crop_health" \in scalers
    /\ input.features = << <<>> >>
    /\ prediction.model_name = "error"

\* C9: with model and scaler loaded and inference succeeding, a regression
\* target has confidence 0.8 and the classification target has the maximum
\* class probability the model reports.
C9_Confidence ==
    PredictDone /\ arg \in models /\ arg \in scalers /\ ~InferenceFailed =>
        /\ ~raised
        /\ prediction.model_name \notin {"default", "error"}
        /\ (arg \in {"crop_health", "yield"} => prediction.confidence = 80)
        /\ (arg = "irrigation" =>
               /\ \E c \in DOMAIN input.inf.proba[1] :
                     prediction.confidence = input.inf.proba[1][c]
               /\ \A c \in DOMAIN input.inf.proba[1] :
                     input.inf.proba[1][c] <= prediction.confidence)

\* C9 witness: the classifier reported probabilities 0.3 and 0.7.
C9_Witness ==
    /\ PredictDone
    /\ arg = "irrigation"
    /\ input.inf.fault = "none"
    /\ input.inf.proba = << << 30, 70 >> >>
    /\ prediction.model_name = "irrigation_model"
    /\ prediction.confidence = 70

(***************************************************************************)
(* AlertManager: calls and their inputs                                    *)
(***************************************************************************)

\* sensor-type keys of a mapping handed to check_alerts
AlertKeys == ThresholdKeySet \cup {"dht_temperature"}

\* readings around every default minimum and maximum
AlertValues ==
    { 2, 4, 5, 6, 19, 20, 21, 29, 30, 31, 34, 35, 36, 79, 80, 81, 89, 90, 91, 95 }

\* mappings with one key, and two mappings with two keys
AlertInputs ==
    {[k \in {key} |-> v] : key \in AlertKeys, v \in AlertValues}
    \cup {[k \in {"temperature", "soil_moisture"} |-> v] : v \in {2, 95}}

CheckAlerts ==
    /\ op = "idle"
    /\ \E sensor_data \in AlertInputs, now \in Instants :
          /\ op' = "check_alerts"
          /\ arg' = "none"
          /\ input' = sensor_data
          /\ alerts' = check_alerts(alert_thresholds, sensor_data, now)
    /\ UNCHANGED << feedbackVars, llmVars, modelVars, alert_thresholds, raised, insight, calls,
                    prediction, response >>

\* (min_val, max_val) arguments; the call does not compare them
ThresholdArgs == { << 10, 30 >>, << 30, 10 >> }

UpdateThresholds ==
    /\ op = "idle"
    /\ \E sensor_type \in {"temperature", "soil_moisture", "dht_temperature"},
          mm \in ThresholdArgs :
          /\ op' = "update_thresholds"
          /\ arg' = sensor_type
          /\ input' = mm
          /\ alert_thresholds' =
                 update_thresholds(alert_thresholds, sensor_type, mm[1], mm[2])
    /\ UNCHANGED << feedbackVars, llmVars, modelVars, raised, insight, calls, prediction, alerts,
                    response >>

InitAlerts ==
    /\ openai_client = FALSE
    /\ gemini_model = FALSE
    /\ InitNoModels
    /\ alert_thresholds = DefaultThresholds
    /\ Idle
    /\ NoFeedback

NextAlerts ==
    \/ CheckAlerts
    \/ UpdateThresholds
    \/ Return

SpecAlerts == InitAlerts /\ [][NextAlerts]_vars

(***************************************************************************)
(* Claims about alerts (checked under SpecAlerts)                          *)
(***************************************************************************)

\* check_alerts ran with the default table on a mapping holding one key of it
OneTypeChecked(key) ==
    /\ op = "check_alerts"
    /\ alert_thresholds = DefaultThresholds
    /\ DOMAIN input = {key}

DefaultMin(key) ==
    CASE key = "temperature" -> 5 [] key = "humidity" -> 20
      [] key = "soil_moisture" -> 20 [] key = "soil_temperature" -> 5

DefaultMax(key) ==
    CASE key = "temperature" -> 35 [] key = "humidity" -> 90
      [] key = "soil_moisture" -> 80 [] key = "soil_temperature" -> 30

\* C10: with the default thresholds, check_alerts on a mapping holding one
\* sensor type gives exactly one alert, low and warning, when the value is
\* below the type's minimum, exactly one critical alert when it is above the
\* maximum, and no alert when the value is within [min, max], bounds included.
C10_DefaultThresholdAlerts ==
    \A key \in {"temperature", "humidity", "soil_moisture", "soil_temperature"} :
        OneTypeChecked(key) =>
            /\ (input[key] < DefaultMin(key) =>
                   /\ Len(alerts) = 1
                   /\ alerts[1].type = "low_threshold"
                   /\ alerts[1].severity = "warning"
                   /\ alerts[1].sensor_type = key
                   /\ alerts[1].threshold = DefaultMin(key))
            /\ (input[key] > DefaultMax(key) =>
                   /\ Len(alerts) = 1
                   /\ alerts[1].type = "high_threshold"
                   /\ alerts[1].severity = "critical"
                   /\ alerts[1].sensor_type = key
                   /\ alerts[1].threshold = DefaultMax(key))
            /\ (DefaultMin(key) <= input[key] /\ input[key] <= DefaultMax(key) =>
                   alerts = <<>>)

\* C10 witness: temperature 2 against the default minimum 5 gave one low
\* warning.
C10_Witness ==
    /\ OneTypeChecked("temperature")
    /\ input["temperature"] = 2
    /\ Len(alerts) = 1
    /\ alerts[1].type = "low_threshold"
    /\ alerts[1].severity = "warning"

\* C11 (as claimed): after any sequence of update_thresholds calls,
\* check_alerts emits at most one alert per sensor type for one value, never
\* both the low-threshold and the high-threshold alert.
C11_AtMostOneAlertPerType ==
    op = "check_alerts" =>
        \A key \in DOMAIN input :
            Cardinality({i \in DOMAIN alerts : alerts[i].sensor_type = key}) <= 1

(***************************************************************************)
(* The single-reading pipeline                                             *)
(*                                                                         *)
(* A reading is a function from field names to values, like the dict       *)
(* SensorData.dict() gives.  A timestamp is [kind, hour, day_of_year,      *)
(* month]; kind "datetime" is a datetime object.                           *)
(***************************************************************************)

\* SensorType
SensorTypes == {"dht_temperature", "dht_humidity", "soil_moisture", "soil_temperature"}

Timestamp(kind, hour, day_of_year, month) ==
    [kind |-> kind, hour |-> hour, day_of_year |-> day_of_year, month |-> month]

\* the inclusive range of a sensor type's values
ValueRange(sensor_type) ==
    CASE sensor_type = "dht_temperature"  -> [lo |-> -40, hi |-> 80]
      [] sensor_type = "dht_humidity"     -> [lo |-> 0, hi |-> 100]
      [] sensor_type = "soil_moisture"    -> [lo |-> 0, hi |-> 100]
      [] sensor_type = "soil_temperature" -> [lo |-> -20, hi |-> 60]

InRange(sensor_type, value) ==
    ValueRange(sensor_type).lo <= value /\ value <= ValueRange(sensor_type).hi

\* SensorData: the request body is accepted by the schema (sensor_type is a
\* member of SensorType and validate_value passes)
SensorDataAccepts(body) ==
    /\ body.sensor_type \in SensorTypes
    /\ InRange(body.sensor_type, body.value)

RequiredFields == << "sensor_id", "sensor_type", "value", "timestamp" >>

\* dict.get(key, default)
Get(d, key, default) == IF key \in DOMAIN d THEN d[key] ELSE default

\* the error of a value outside the range of its sensor type
RangeError(sensor_type, value) ==
    CASE sensor_type = "dht_temperature"  -> << "Temperature out of range: ", value, "°C" >>
      [] sensor_type = "dht_humidity"     -> << "Humidity out of range: ", value, "%" >>
      [] sensor_type = "soil_moisture"    -> << "Soil moisture out of range: ", value, "%" >>
      [] sensor_type = "soil_temperature" -> << "Soil temperature out of range: ", value, "°C" >>

\* DataProcessor.validate_sensor_data(data): the list of errors.  Missing
\* required fields return at once; an unknown sensor type has no range check.
validate_sensor_data(data) ==
    LET missing == SelectSeq(RequiredFields, LAMBDA f : f \notin DOMAIN data)
    IN  IF missing # <<>>
        THEN [i \in DOMAIN missing |-> << "Missing required field: ", missing[i] >>]
        ELSE (IF data.sensor_type \notin SensorTypes
              THEN << << "Invalid sensor type: ", data.sensor_type >> >>
              ELSE <<>>)
             \o
             (IF data.sensor_type \in SensorTypes
                 /\ ~InRange(data.sensor_type, data.value)
              THEN << RangeError(data.sensor_type, data.value) >>
              ELSE <<>>)
             \o
             (IF data.timestamp.kind \in {"datetime", "iso"}
              THEN <<>>
              ELSE << << "Invalid timestamp format" >> >>)

\* the returned pair: (len(errors) == 0, errors)
ValidationResult(errors) == << errors = <<>>, errors >>

\* temperature, humidity, soil_moisture, soil_temperature when the reading
\* has no such key; precipitation and wind_speed when no weather is given
DEFAULT_TEMPERATURE == 20

DEFAULT_HUMIDITY == 50

DEFAULT_SOIL_MOISTURE == 50

DEFAULT_SOIL_TEMPERATURE == 18

DEFAULT_PRECIPITATION == 0

DEFAULT_WIND_SPEED == 3

\* no weather_data argument (None)
NoWeather == <<>>

\* datetime.utcnow() at instant now
UtcNow(now) == Timestamp("datetime", now, 305, 11)

\* Mutant of prepare_features_for_prediction: the value of the reading is
\* taken as the feature its sensor type measures.
prepare_features_for_prediction_of_reading(sensor_data, weather_data, utcnow) ==
    LET measured(t, d)   == IF "sensor_type" \in DOMAIN sensor_data
                               /\ sensor_data.sensor_type = t
                            THEN sensor_data.value ELSE d
        temperature      == measured("dht_temperature", DEFAULT_TEMPERATURE)
        humidity         == measured("dht_humidity", DEFAULT_HUMIDITY)
        soil_moisture    == measured("soil_moisture", DEFAULT_SOIL_MOISTURE)
        soil_temperature == measured("soil_temperature", DEFAULT_SOIL_TEMPERATURE)
        precipitation    == IF weather_data # NoWeather
                            THEN Get(weather_data, "precipitation", DEFAULT_PRECIPITATION)
                            ELSE DEFAULT_PRECIPITATION
        wind_speed       == IF weather_data # NoWeather
                            THEN Get(weather_data, "wind_speed", DEFAULT_WIND_SPEED)
                            ELSE DEFAULT_WIND_SPEED
        timestamp        == Get(sensor_data, "timestamp", utcnow)
    IN  IF temperature + 1 = 0 THEN Raises
        ELSE Returns(<< << temperature, humidity, soil_moisture, soil_temperature,
                           precipitation, wind_speed,
                           (temperature * humidity) \div 100,
                           soil_moisture \div (temperature + 1),
                           timestamp.hour, timestamp.day_of_year, timestamp.month >> >>)

\* DataProcessor.prepare_features_for_prediction(sensor_data, weather_data):
\* one sample of 11 features; the two quotients are kept to whole numbers.
\* The division raises ZeroDivisionError when temperature + 1 = 0; a str
\* timestamp that fromisoformat does not parse raises ValueError and a
\* timestamp that is neither str nor datetime has no hour.
prepare_features_for_prediction(sensor_data, weather_data, utcnow) ==
    LET temperature      == Get(sensor_data, "temperature", DEFAULT_TEMPERATURE)
        humidity         == Get(sensor_data, "humidity", DEFAULT_HUMIDITY)
        soil_moisture    == Get(sensor_data, "soil_moisture", DEFAULT_SOIL_MOISTURE)
        soil_temperature == Get(sensor_data, "soil_temperature", DEFAULT_SOIL_TEMPERATURE)
        precipitation    == IF weather_data # NoWeather
                            THEN Get(weather_data, "precipitation", DEFAULT_PRECIPITATION)
                            ELSE DEFAULT_PRECIPITATION
        wind_speed       == IF weather_data # NoWeather
                            THEN Get(weather_data, "wind_speed", DEFAULT_WIND_SPEED)
                            ELSE DEFAULT_WIND_SPEED
        timestamp        == Get(sensor_data, "timestamp", utcnow)
    IN  IF temperature + 1 = 0 THEN Raises
        ELSE IF timestamp.kind \notin {"datetime", "iso"} THEN Raises
        ELSE Returns(<< << temperature, humidity, soil_moisture, soil_temperature,
                           precipitation, wind_speed,
                           (temperature * humidity) \div 100,
                           soil_moisture \div (temperature + 1),
                           timestamp.hour, timestamp.day_of_year, timestamp.month >> >>)

\* ThirdPartyService.get_weather_data(): the live snapshot or, when the key
\* is missing or the request fails, the mock snapshot; it never raises
WeatherSnapshots ==
    { [source |-> "openweather", precipitation |-> 4, wind_speed |-> 6],
      [source |-> "mock", precipitation |-> 0, wind_speed |-> 3] }

HttpError(status) == [status |-> status, success |-> FALSE]

\* the error SensorData reports for reading i of a request body: an unknown
\* sensor_type, or a value validate_value rejects
SchemaError(i, body) ==
    IF body.sensor_type \notin SensorTypes
    THEN << [loc |-> i, field |-> "sensor_type", msg |-> "not a valid SensorType"] >>
    ELSE IF ~InRange(body.sensor_type, body.value)
    THEN << [loc |-> i, field |-> "value", msg |-> "value out of range"] >>
    ELSE <<>>

\* Mutant of SchemaErrors: validation stops at the first rejected reading.
SchemaErrors_first_only(sensors) ==
    LET bad == {i \in DOMAIN sensors : SchemaError(i, sensors[i]) # <<>>}
    IN  IF bad = {} THEN <<>>
        ELSE SchemaError(CHOOSE i \in bad : \A j \in bad : i <= j,
                         sensors[CHOOSE i \in bad : \A j \in bad : i <= j])

RECURSIVE SchemaErrorsFrom(_, _)
SchemaErrorsFrom(sensors, i) ==
    IF i > Len(sensors) THEN <<>>
    ELSE SchemaError(i, sensors[i]) \o SchemaErrorsFrom(sensors, i + 1)

\* the errors of all readings of a request body, in input order
SchemaErrors(sensors) == SchemaErrorsFrom(sensors, 1)

\* the request body is not an instance of the endpoint's schema: HTTP 422
\* with the schema's errors, and the handler is not called
UnprocessableEntity(errors) ==
    [response |-> [status |-> 422, success |-> FALSE, detail |-> errors],
     calls |-> <<>>]

(* receive_sensor_data(sensor_data): the handler, written as its steps in  *)
(* order, each step handing what it computed to the next.  The result is   *)
(* the response and the provider calls that were made.                     *)
(*   infs  the behaviour of the loaded artifacts of each target            *)
(*   envs  the providers' outcomes for each of the three insight calls     *)
(* The background save is scheduled by the handler and runs after the      *)
(* response; it is not part of the handler's result.                       *)

\* a call to the weather service
Fetch(service) == [call |-> service]

\* the call prepare_features_for_prediction(sensor_dict[, weather_data]) for
\* reading i and the feature rows it returned
FeaturesCall(i, weather_data, features) ==
    [call |-> "prepare_features_for_prediction", sensor |-> i, weather |-> weather_data,
     features |-> features.value]

\* except Exception: HTTP 500
InternalServerError(llm_calls) == [response |-> HttpError(500), calls |-> llm_calls]

\* response_data is assembled and APIResponse(success=True, ...) returned
SensorDataProcessed(body, weather_data, alerts_, preds, ins, made, now) ==
    IF ins[1].raised THEN InternalServerError(made \o ins[1].calls)
    ELSE IF ins[2].raised THEN InternalServerError(made \o ins[1].calls \o ins[2].calls)
    ELSE IF ins[3].raised
    THEN InternalServerError(made \o ins[1].calls \o ins[2].calls \o ins[3].calls)
    ELSE [response |->
             [status |-> 200, success |-> TRUE,
              data |-> [sensor_data |-> body,
                        predictions |-> [irrigation  |-> preds[1].value,
                                         crop_health |-> preds[2].value,
                                         yield       |-> preds[3].value],
                        insights |-> [irrigation  |-> ins[1].insight,
                                      crop_health |-> ins[2].insight,
                                      yield       |-> ins[3].insight],
                        weather_context |-> weather_data,
                        alerts |-> alerts_,
                        timestamp |-> IsoFormat(now)]],
          calls |-> made \o ins[1].calls \o ins[2].calls \o ins[3].calls]

\* the three insights are generated from the three predictions
GenerateInsights(body, weather_data, alerts_, preds, envs, made, now) ==
    IF preds[1].raised \/ preds[2].raised \/ preds[3].raised
    THEN InternalServerError(made)
    ELSE SensorDataProcessed(body, weather_data, alerts_, preds,
             << generate_irrigation_insight(envs.irrigation, now),
                generate_crop_health_insight(envs.crop_health, now),
                generate_yield_insight(envs.yield, now) >>,
             made, now)

\* the weather snapshot and the forecast are fetched after the features were
\* prepared, then the three predictions are made from the features
MakePredictions(body, weather_data, alerts_, features, infs, envs, now) ==
    IF features.raised
    THEN InternalServerError(<< FeaturesCall(1, NoWeather, features) >>)
    ELSE GenerateInsights(body, weather_data, alerts_,
             << predict_irrigation_need(features.value, infs.irrigation),
                predict_crop_health(features.value, infs.crop_health),
                predict_yield(features.value, infs.yield) >>,
             envs,
             << FeaturesCall(1, NoWeather, features),
                Fetch("get_weather_data"), Fetch("get_weather_forecast") >>,
             now)

\* after validation: alerts for {sensor_type: value}, features from the
\* reading alone, then the weather snapshot
ProcessValidReading(body, weather_data, infs, envs, now) ==
    MakePredictions(body, weather_data,
        check_alerts(alert_thresholds, [k \in {body.sensor_type} |-> body.value], now),
        prepare_features_for_prediction(body, NoWeather, UtcNow(now)),
        infs, envs, now)

\* a reading with validation errors is rejected with HTTP 400 and the errors
InvalidSensorData(errors) ==
    [response |-> [status |-> 400, success |-> FALSE, detail |-> errors],
     calls |-> <<>>]

ValidateReading(body, errors, weather_data, infs, envs, now) ==
    IF errors # <<>> THEN InvalidSensorData(errors)
    ELSE ProcessValidReading(body, weather_data, infs, envs, now)

receive_sensor_data(body, weather_data, infs, envs, now) ==
    ValidateReading(body, validate_sensor_data(body), weather_data, infs, envs, now)

(***************************************************************************)
(* Requests and the behaviours they are run against                        *)
(***************************************************************************)

RequestTypes == SensorTypes \cup {"ph"}

RequestValues == { -50, 2, 25, 95, 120 }

RequestTimestamp == Timestamp("datetime", 14, 305, 11)

\* request bodies; timestamp, location and metadata get their defaults
RequestBodies ==
    {[sensor_id |-> "s1", sensor_type |-> t, value |-> v,
      timestamp |-> RequestTimestamp, location |-> "none", metadata |-> <<>>] :
        t \in RequestTypes, v \in RequestValues}

\* per target: inference succeeds, predict raises, or the scaler / the
\* probabilities raise
InferenceEnvs ==
    { [irrigation  |-> Inference("none", 1, << << 30, 70 >> >>),
       crop_health |-> Inference("none", 82, <<>>),
       yield       |-> Inference("none", 3100, <<>>)],
      [irrigation  |-> Inference("predict", 0, << << 50, 50 >> >>),
       crop_health |-> Inference("predict", 0, <<>>),
       yield       |-> Inference("predict", 0, <<>>)],
      [irrigation  |-> Inference("predict_proba", 0, << << 50, 50 >> >>),
       crop_health |-> Inference("none", 35, <<>>),
       yield       |-> Inference("transform", 0, <<>>)] }

\* what the called provider does: raises, returns text without JSON, returns
\* a JSON object
CallOutcomes ==
    { Outcome(TRUE, NoText),
      Outcome(FALSE, RawText(FALSE, FALSE, FALSE, FALSE, FALSE, <<>>)),
      Outcome(FALSE, GoodText) }

\* the outcomes of the three insight calls of one request: the same for all,
\* or one of each
InsightEnv(a, b, c) ==
    [irrigation  |-> [openai |-> a, gemini |-> a],
     crop_health |-> [openai |-> b, gemini |-> b],
     yield       |-> [openai |-> c, gemini |-> c]]

InsightEnvs ==
    {InsightEnv(a, a, a) : a \in CallOutcomes}
    \cup { InsightEnv(Outcome(TRUE, NoText),
                      Outcome(FALSE, RawText(FALSE, FALSE, FALSE, FALSE, FALSE, <<>>)),
                      Outcome(FALSE, GoodText)),
           InsightEnv(Outcome(FALSE, GoodText), Outcome(TRUE, NoText),
                      Outcome(FALSE, RawText(FALSE, FALSE, TRUE, FALSE, FALSE, <<>>))) }

ReceiveSensorData ==
    /\ op = "idle"
    /\ \E body \in RequestBodies, weather_data \in WeatherSnapshots,
          infs \in InferenceEnvs, envs \in InsightEnvs, now \in Instants :
          /\ op' = "receive_sensor_data"
          /\ arg' = "none"
          /\ input' = [body |-> body, infs |-> infs]
          /\ \E r \in {IF SensorDataAccepts(body)
                       THEN receive_sensor_data(body, weather_data, infs, envs, now)
                       ELSE UnprocessableEntity(SchemaErrors(<< body >>))} :
                /\ response' = r.response
                /\ calls' = r.calls
    /\ UNCHANGED << feedbackVars, llmVars, modelVars, alert_thresholds, raised, insight,
                    prediction, alerts >>

\* artifact directories: empty, complete, the last scaler corrupt, the
\* metadata corrupt
PipelineDirs ==
    { [f \in ArtifactFileSet |-> "absent"],
      [f \in ArtifactFileSet |-> "ok"],
      [f \in ArtifactFileSet |-> IF f = ArtifactFiles[Len(ArtifactFiles)]
                                 THEN "corrupt" ELSE "ok"],
      [f \in ArtifactFileSet |-> IF f = ArtifactFiles[1] THEN "corrupt" ELSE "ok"] }

Init ==
    /\ InitLLM
    /\ InitModels(PipelineDirs)
    /\ alert_thresholds = DefaultThresholds
    /\ Idle
    /\ NoFeedback

Next ==
    \/ ReceiveSensorData
    \/ Return

Spec == Init /\ [][Next]_vars

(***************************************************************************)
(* Claims about the pipeline (checked under Spec)                          *)
(***************************************************************************)

\* the handler ran on a reading that passes validation
ValidReadingProcessed ==
    /\ op = "receive_sensor_data"
    /\ input.body.sensor_type \in
           {"dht_temperature", "dht_humidity", "soil_moisture", "soil_temperature"}
    /\ (input.body.sensor_type \in {"dht_temperature"} =>
           -40 <= input.body.value /\ input.body.value <= 80)
    /\ (input.body.sensor_type \in {"dht_humidity", "soil_moisture"} =>
           0 <= input.body.value /\ input.body.value <= 100)
    /\ (input.body.sensor_type \in {"soil_temperature"} =>
           -20 <= input.body.value /\ input.body.value <= 60)

\* C1: for every reading that passes validation, receive_sensor_data returns
\* a successful response holding exactly the three predictions irrigation,
\* crop_health and yield and exactly the three insights of the same keys,
\* whatever the models' state and the providers' behaviour; no error response.
C1_CompleteResultSet ==
    ValidReadingProcessed =>
        /\ response.status = 200
        /\ response.success
        /\ DOMAIN response.data.predictions = {"irrigation", "crop_health", "yield"}
        /\ DOMAIN response.data.insights = {"irrigation", "crop_health", "yield"}
        /\ \A t \in {"irrigation", "crop_health", "yield"} :
              /\ response.data.predictions[t].model_name # "none"
              /\ response.data.insights[t] # <<>>

\* C1 witness: models loaded with every inference raising, a provider
\* configured whose three calls raised, and the response is the success.
C1_Witness ==
    /\ ValidReadingProcessed
    /\ models = {"irrigation", "crop_health", "yield"}
    /\ input.infs.yield.fault = "predict"
    /\ Len(calls) = 6
    /\ \A i \in 4 .. 6 : calls[i].outcome = "raised"
    /\ response.status = 200
    /\ response.data.predictions["yield"].model_name = "error"

(***************************************************************************)
(* _calculate_farm_status (app/api/sensors.py)                             *)
(*                                                                         *)
(* overall_health_score is kept in tenths: 50.0 is 500.  A status is a     *)
(* function from its keys to values, like the dict the code returns.       *)
(***************************************************************************)

\* overall_health_score without processed sensors (50.0), in tenths
EMPTY_HEALTH_SCORE == 500

\* an averaged health score below it adds the crop-health recommendation
HEALTH_SCORE_LIMIT == 60

RECURSIVE Sum(_)
Sum(xs) == IF xs = <<>> THEN 0 ELSE Head(xs) + Sum(Tail(xs))

\* round(num / den, 1) in tenths; a tie goes to the even tenth
RoundTenths(num, den) ==
    LET q == (num * 10) \div den
        r == (num * 10) % den
    IN  IF 2 * r < den THEN q
        ELSE IF 2 * r > den THEN q + 1
        ELSE IF q % 2 = 0 THEN q ELSE q + 1

\* Mutant of CountSeverity: every alert is counted, whatever its severity.
CountSeverity_any(alerts_, severity) == Len(alerts_)

\* len([a for a in alerts if a.get('severity') == severity])
CountSeverity(alerts_, severity) ==
    Cardinality({i \in DOMAIN alerts_ : alerts_[i].severity = severity})

\* any(sensor['predictions'].get('irrigation', {}).get('predicted_value', 0) == 1 ...)
IrrigationNeeded(processed_sensors) ==
    \E i \in DOMAIN processed_sensors :
        /\ "irrigation" \in DOMAIN processed_sensors[i].predictions
        /\ processed_sensors[i].predictions["irrigation"].predicted_value = 1

\* the crop_health predicted values of the sensors that have one
HealthScores(processed_sensors) ==
    LET with == SelectSeq(processed_sensors,
                          LAMBDA sensor : "crop_health" \in DOMAIN sensor.predictions)
    IN  [i \in DOMAIN with |-> with[i].predictions["crop_health"].predicted_value]

\* Mutant of Recommendations: the critical-alert message comes first.
Recommendations_critical_first(irrigation_needed, health_scores, critical_alerts) ==
    (IF critical_alerts > 0
     THEN << "Address critical alerts immediately" >> ELSE <<>>)
    \o (IF irrigation_needed
        THEN << "Irrigation recommended for multiple fields" >> ELSE <<>>)
    \o (IF health_scores # <<>> /\ Sum(health_scores) < HEALTH_SCORE_LIMIT * Len(health_scores)
        THEN << "Crop health below optimal - check soil conditions" >> ELSE <<>>)

\* the three appends of _calculate_farm_status; avg_health_score < 60 is
\* compared on the sum (the average is 50.0 when there is no score)
Recommendations(irrigation_needed, health_scores, critical_alerts) ==
    (IF irrigation_needed
     THEN << "Irrigation recommended for multiple fields" >> ELSE <<>>)
    \o (IF \/ health_scores = <<>>
           \/ Sum(health_scores) < HEALTH_SCORE_LIMIT * Len(health_scores)
        THEN << "Crop health below optimal - check soil conditions" >> ELSE <<>>)
    \o (IF critical_alerts > 0
        THEN << "Address critical alerts immediately" >> ELSE <<>>)

\* Mutant of calculate_farm_status: the status without sensors has the keys
\* of the status with sensors.
calculate_farm_status_uniform(processed_sensors, alerts_) ==
    [overall_health_score |->
         IF HealthScores(processed_sensors) = <<>> THEN EMPTY_HEALTH_SCORE
         ELSE RoundTenths(Sum(HealthScores(processed_sensors)),
                          Len(HealthScores(processed_sensors))),
     alert_count     |-> Len(alerts_),
     critical_alerts |-> CountSeverity(alerts_, "critical"),
     warning_alerts  |-> CountSeverity(alerts_, "warning"),
     recommendations |-> Recommendations(IrrigationNeeded(processed_sensors),
                                         HealthScores(processed_sensors),
                                         CountSeverity(alerts_, "critical")),
     sensor_count    |-> Len(processed_sensors)]

\* _calculate_farm_status(processed_sensors, alerts)
calculate_farm_status(processed_sensors, alerts_) ==
    IF processed_sensors = <<>>
    THEN [overall_health_score |-> EMPTY_HEALTH_SCORE,
          alert_count     |-> Len(alerts_),
          critical_alerts |-> CountSeverity(alerts_, "critical"),
          recommendations |-> << "No sensor data available" >>]
    ELSE [overall_health_score |->
              IF HealthScores(processed_sensors) = <<>> THEN EMPTY_HEALTH_SCORE
              ELSE RoundTenths(Sum(HealthScores(processed_sensors)),
                               Len(HealthScores(processed_sensors))),
          alert_count     |-> Len(alerts_),
          critical_alerts |-> CountSeverity(alerts_, "critical"),
          warning_alerts  |-> CountSeverity(alerts_, "warning"),
          recommendations |-> Recommendations(IrrigationNeeded(processed_sensors),
                                              HealthScores(processed_sensors),
                                              CountSeverity(alerts_, "critical")),
          sensor_count    |-> Len(processed_sensors)]

(***************************************************************************)
(* _calculate_farm_status: calls and their arguments                       *)
(***************************************************************************)

\* longest list of sensors and of alerts handed to _calculate_farm_status
MaxStatusArgs == 2

\* all sequences over S of length at most n
SeqsUpTo(S, n) == UNION {[1 .. k -> S] : k \in 0 .. n}

\* what _calculate_farm_status reads of a processed sensor
StatusSensors ==
    {[predictions |-> [irrigation  |-> [predicted_value |-> irr],
                       crop_health |-> [predicted_value |-> health]]] :
         irr \in {0, 1}, health \in {35, 59, 60, 82}}
    \cup {[predictions |-> [yield |-> [predicted_value |-> 2000]]]}

StatusAlerts ==
    { LowAlert("soil_moisture", 15, SOIL_MOISTURE_MIN, 0),
      HighAlert("soil_moisture", 95, SOIL_MOISTURE_MAX, 0) }

CalculateFarmStatus ==
    /\ op = "idle"
    /\ \E processed_sensors \in SeqsUpTo(StatusSensors, MaxStatusArgs),
          alerts_ \in SeqsUpTo(StatusAlerts, MaxStatusArgs) :
          /\ op' = "calculate_farm_status"
          /\ arg' = "none"
          /\ input' = [processed_sensors |-> processed_sensors, alerts |-> alerts_]
          /\ response' = calculate_farm_status(processed_sensors, alerts_)
    /\ UNCHANGED << feedbackVars, llmVars, modelVars, alert_thresholds, raised, insight, calls,
                    prediction, alerts >>

InitFarmStatus ==
    /\ openai_client = FALSE
    /\ gemini_model = FALSE
    /\ InitNoModels
    /\ alert_thresholds = DefaultThresholds
    /\ Idle
    /\ NoFeedback

NextFarmStatus ==
    \/ CalculateFarmStatus
    \/ Return

SpecFarmStatus == InitFarmStatus /\ [][NextFarmStatus]_vars

(***************************************************************************)
(* Claims about the farm status (checked under SpecFarmStatus)             *)
(***************************************************************************)

StatusDone == op = "calculate_farm_status"

\* C13: _calculate_farm_status with no processed sensors returns
\* overall_health_score 50.0, exactly one recommendation string, and a
\* sensor_count that is absent or zero.
C13_EmptyStatus ==
    StatusDone /\ input.processed_sensors = <<>> =>
        /\ response.overall_health_score = 500
        /\ Len(response.recommendations) = 1
        /\ response.recommendations[1] \in STRING
        /\ ("sensor_count" \in DOMAIN response => response.sensor_count = 0)

\* C13 witness: no processed sensor and one alert.
C13_Witness ==
    /\ StatusDone
    /\ input.processed_sensors = <<>>
    /\ Len(input.alerts) = 1
    /\ response.recommendations = << "No sensor data available" >>

\* the three conditions of the recommendations, read from the arguments
IrrigationCondition ==
    \E i \in DOMAIN input.processed_sensors :
        /\ "irrigation" \in DOMAIN input.processed_sensors[i].predictions
        /\ input.processed_sensors[i].predictions["irrigation"].predicted_value = 1

\* the average of the crop_health values (50.0 without any) is below 60
HealthCondition ==
    LET ix == {i \in DOMAIN input.processed_sensors :
                  "crop_health" \in DOMAIN input.processed_sensors[i].predictions}
        total[S \in SUBSET ix] ==
            IF S = {} THEN 0
            ELSE LET i == CHOOSE j \in S : TRUE
                 IN  input.processed_sensors[i].predictions["crop_health"].predicted_value
                     + total[S \ {i}]
    IN  IF ix = {} THEN TRUE ELSE total[ix] < 60 * Cardinality(ix)

CriticalCondition ==
    \E i \in DOMAIN input.alerts : input.alerts[i].severity = "critical"

\* C14: for a non-empty list of processed sensors the recommendations are
\* the fixed messages of the true conditions among (an irrigation prediction
\* equals 1; averaged health score below 60; a critical alert), in that
\* order, and nothing else.
C14_RecommendationsOfThreeConditions ==
    StatusDone /\ input.processed_sensors # <<>> =>
        response.recommendations =
            (IF IrrigationCondition
             THEN << "Irrigation recommended for multiple fields" >> ELSE <<>>)
            \o (IF HealthCondition
                THEN << "Crop health below optimal - check soil conditions" >> ELSE <<>>)
            \o (IF CriticalCondition
                THEN << "Address critical alerts immediately" >> ELSE <<>>)

\* C14 witness: the three conditions are true and the three messages are
\* returned.
C14_Witness ==
    /\ StatusDone
    /\ Len(input.processed_sensors) = 2
    /\ IrrigationCondition /\ HealthCondition /\ CriticalCondition
    /\ Len(response.recommendations) = 3

(***************************************************************************)
(* The batch pipeline: receive_batch_sensor_data (app/api/sensors.py)      *)
(*                                                                         *)
(* calls holds, in order, the fetches of the weather service and, for      *)
(* every processed sensor, the arguments that feature extraction and       *)
(* insight generation were given.                                          *)
(***************************************************************************)

\* ThirdPartyService.get_weather_forecast(days=3) at the time of a snapshot
Forecast(weather_data) == [source |-> weather_data.source, days |-> 3]

\* what the weather service returns at its successive calls of one request
WeatherWorlds ==
    {world \in WeatherSnapshots \X WeatherSnapshots : world[1] # world[2]}

\* the n-th answer of the weather service
ServiceAnswer(world, n) == world[((n - 1) % Len(world)) + 1]

\* Mutant of FetchedWeather: the snapshot is fetched again for every sensor.
FetchedWeather_per_sensor(world, i) == ServiceAnswer(world, i)

\* the snapshot handed to the i-th reading of the batch: the one fetched
\* before the loop
FetchedWeather(world, i) == ServiceAnswer(world, 1)

InsightsCall(i, weather_data, forecast_data) ==
    [call |-> "generate_insights", sensor |-> i, weather |-> weather_data,
     forecast |-> forecast_data]

\* outcome of one pass of the loop: the reading is skipped, an exception
\* leaves the handler, or the sensor is processed
Skipped == [raised |-> FALSE, sensors |-> <<>>, alerts |-> <<>>, calls |-> <<>>]

LoopRaised(made) == [raised |-> TRUE, sensors |-> <<>>, alerts |-> <<>>, calls |-> made]

\* processed_sensors.append({...})
SensorProcessed(i, body, weather_data, alerts_, features, preds, ins) ==
    IF ins[1].raised \/ ins[2].raised \/ ins[3].raised
    THEN LoopRaised(<< FeaturesCall(i, weather_data, features),
                       InsightsCall(i, weather_data, Forecast(weather_data)) >>)
    ELSE [raised  |-> FALSE,
          sensors |-> << [sensor_data |-> body,
                          predictions |-> [irrigation  |-> preds[1].value,
                                           crop_health |-> preds[2].value,
                                           yield       |-> preds[3].value],
                          insights |-> [irrigation  |-> ins[1].insight,
                                        crop_health |-> ins[2].insight,
                                        yield       |-> ins[3].insight],
                          alerts |-> alerts_] >>,
          alerts  |-> alerts_,
          calls   |-> << FeaturesCall(i, weather_data, features),
                         InsightsCall(i, weather_data, Forecast(weather_data)) >>]

\* sensor_insights from sensor_predictions, the weather and the forecast
SensorInsights(i, body, weather_data, alerts_, features, preds, envs, now) ==
    IF preds[1].raised \/ preds[2].raised \/ preds[3].raised
    THEN LoopRaised(<< FeaturesCall(i, weather_data, features) >>)
    ELSE SensorProcessed(i, body, weather_data, alerts_, features, preds,
             << generate_irrigation_insight(envs.irrigation, now),
                generate_crop_health_insight(envs.crop_health, now),
                generate_yield_insight(envs.yield, now) >>)

\* sensor_predictions from the features
SensorPredictions(i, body, weather_data, alerts_, features, infs, envs, now) ==
    IF features.raised THEN LoopRaised(<< FeaturesCall(i, weather_data, features) >>)
    ELSE SensorInsights(i, body, weather_data, alerts_, features,
             << predict_irrigation_need(features.value, infs.irrigation),
                predict_crop_health(features.value, infs.crop_health),
                predict_yield(features.value, infs.yield) >>,
             envs, now)

\* one pass of the loop over batch_data.sensors
ProcessSensor(i, body, errors, weather_data, infs, envs, now) ==
    IF errors # <<>> THEN Skipped
    ELSE SensorPredictions(i, body, weather_data,
             check_alerts(alert_thresholds, [k \in {body.sensor_type} |-> body.value], now),
             prepare_features_for_prediction(body, weather_data, UtcNow(now)),
             infs, envs, now)

\* the pass for reading i followed by the passes for the later readings
ThenRest(one, rest) ==
    IF one.raised THEN one
    ELSE [raised  |-> rest.raised,
          sensors |-> one.sensors \o rest.sensors,
          alerts  |-> one.alerts \o rest.alerts,
          calls   |-> one.calls \o rest.calls]

\* the loop from reading i on; infs[i] is what the artifacts do for reading i
RECURSIVE ProcessSensors(_, _, _, _, _, _)
ProcessSensors(sensors, i, world, infs, envs, now) ==
    IF i > Len(sensors) THEN Skipped
    ELSE ThenRest(ProcessSensor(i, sensors[i], validate_sensor_data(sensors[i]),
                                FetchedWeather(world, i), infs[i], envs, now),
                  ProcessSensors(sensors, i + 1, world, infs, envs, now))

\* after the loop: the farm status and the response
BatchProcessed(batch_data, world, loop, now) ==
    IF loop.raised
    THEN [response |-> HttpError(500),
          calls |-> << Fetch("get_weather_data"), Fetch("get_weather_forecast") >>
                    \o loop.calls]
    ELSE [response |->
             [status |-> 200, success |-> TRUE,
              data |-> [farm_id |-> batch_data.farm_id,
                        processed_sensors |-> loop.sensors,
                        farm_status |-> calculate_farm_status(loop.sensors, loop.alerts),
                        weather_context |-> ServiceAnswer(world, 1),
                        total_sensors |-> Len(batch_data.sensors),
                        processed_count |-> Len(loop.sensors),
                        timestamp |-> IsoFormat(now)]],
          calls |-> << Fetch("get_weather_data"), Fetch("get_weather_forecast") >>
                    \o loop.calls]

\* receive_batch_sensor_data(batch_data)
receive_batch_sensor_data(batch_data, world, infs, envs, now) ==
    BatchProcessed(batch_data, world,
                   ProcessSensors(batch_data.sensors, 1, world, infs, envs, now), now)

(***************************************************************************)
(* Batch requests and the behaviours they are run against                  *)
(***************************************************************************)

\* most readings in one batch
MaxBatch == 3

\* (sensor_type, value) of a reading: soil moisture below, within and above
\* its thresholds, an air temperature, and a value the schema rejects
BatchReadings ==
    { << "soil_moisture", 15 >>, << "soil_moisture", 50 >>, << "soil_moisture", 95 >>,
      << "dht_temperature", 25 >>, << "soil_moisture", 150 >> }

\* the i-th reading of a request body
BatchReading(i, reading) ==
    [sensor_id |-> i, sensor_type |-> reading[1], value |-> reading[2],
     timestamp |-> RequestTimestamp, location |-> "none", metadata |-> <<>>]

\* BatchSensorData bodies
BatchBodies ==
    {[farm_id |-> "farm", sensors |-> [i \in DOMAIN readings |-> BatchReading(i, readings[i])]] :
        readings \in SeqsUpTo(BatchReadings, MaxBatch)}

\* inference succeeds with irrigation needed and a good health score, or
\* the classifier fails and the health score is low
GoodInference ==
    [irrigation  |-> Inference("none", 1, << << 30, 70 >> >>),
     crop_health |-> Inference("none", 82, <<>>),
     yield       |-> Inference("none", 3100, <<>>)]

LowInference ==
    [irrigation  |-> Inference("predict_proba", 0, << << 50, 50 >> >>),
     crop_health |-> Inference("none", 35, <<>>),
     yield       |-> Inference("transform", 0, <<>>)]

\* what the artifacts do for the readings of a batch, by position: the same
\* for all, or alternating
BatchInferenceEnvs ==
    { [i \in 1 .. MaxBatch |-> GoodInference],
      [i \in 1 .. MaxBatch |-> LowInference],
      [i \in 1 .. MaxBatch |-> IF i % 2 = 1 THEN GoodInference ELSE LowInference],
      [i \in 1 .. MaxBatch |-> IF i % 2 = 1 THEN LowInference ELSE GoodInference] }

\* the providers during a batch: one call returns JSON, one raises, one
\* returns prose
BatchInsightEnv ==
    InsightEnv(Outcome(FALSE, GoodText), Outcome(TRUE, NoText),
               Outcome(FALSE, RawText(FALSE, FALSE, FALSE, FALSE, FALSE, <<>>)))

ReceiveBatchSensorData ==
    /\ op = "idle"
    /\ \E batch_data \in BatchBodies, world \in WeatherWorlds,
          infs \in BatchInferenceEnvs, now \in Instants :
          /\ op' = "receive_batch_sensor_data"
          /\ arg' = "none"
          /\ input' = [body |-> batch_data, world |-> world]
          /\ \E r \in {IF SchemaErrors(batch_data.sensors) = <<>>
                       THEN receive_batch_sensor_data(batch_data, world, infs,
                                                      BatchInsightEnv, now)
                       ELSE UnprocessableEntity(SchemaErrors(batch_data.sensors))} :
                /\ response' = r.response
                /\ calls' = r.calls
    /\ UNCHANGED << feedbackVars, llmVars, modelVars, alert_thresholds, raised, insight,
                    prediction, alerts >>

\* artifact directories of the batch runs: empty and complete
BatchDirs ==
    { [f \in ArtifactFileSet |-> "absent"], [f \in ArtifactFileSet |-> "ok"] }

InitBatch ==
    /\ openai_client \in BOOLEAN
    /\ gemini_model = FALSE
    /\ InitModels(BatchDirs)
    /\ alert_thresholds = DefaultThresholds
    /\ Idle
    /\ NoFeedback

NextBatch ==
    \/ ReceiveBatchSensorData
    \/ ReceiveSensorData
    \/ Return

SpecBatch == InitBatch /\ [][NextBatch]_vars

(***************************************************************************)
(* Claims about the batch pipeline (checked under SpecBatch)               *)
(***************************************************************************)

BatchDone == op = "receive_batch_sensor_data"

\* reading i of the request has a known type and a value in the type's range
ValidReading(i) ==
    LET r == input.body.sensors[i]
    IN  \/ (r.sensor_type = "dht_temperature" /\ -40 <= r.value /\ r.value <= 80)
        \/ (r.sensor_type \in {"dht_humidity", "soil_moisture"}
               /\ 0 <= r.value /\ r.value <= 100)
        \/ (r.sensor_type = "soil_temperature" /\ -20 <= r.value /\ r.value <= 60)

\* reading i is within the default thresholds of its type
WithinThresholds(i) ==
    LET r == input.body.sensors[i]
    IN  /\ ValidReading(i)
        /\ (r.sensor_type = "soil_moisture" => 20 <= r.value /\ r.value <= 80)
        /\ (r.sensor_type = "soil_temperature" => 5 <= r.value /\ r.value <= 30)

\* a batch of three readings: one is soil_moisture 15, the others are within
\* range
OneDryReadingOfThree ==
    /\ BatchDone
    /\ alert_thresholds = DefaultThresholds
    /\ Len(input.body.sensors) = 3
    /\ \E i \in 1 .. 3 :
          /\ input.body.sensors[i].sensor_type = "soil_moisture"
          /\ input.body.sensors[i].value = 15
          /\ \A j \in (1 .. 3) \ {i} : WithinThresholds(j)

\* C12 (as claimed): for a batch of 3 sensors of which one reads
\* soil_moisture 15 and the others are within range, the farm status reports
\* critical_alerts = 1 and recommends "Address critical alerts immediately".
C12_DryReadingIsCritical ==
    OneDryReadingOfThree =>
        /\ response.status = 200
        /\ response.data.farm_status.critical_alerts = 1
        /\ \E k \in DOMAIN response.data.farm_status.recommendations :
              response.data.farm_status.recommendations[k]
                  = "Address critical alerts immediately"

\* C12 (amended): for that batch the farm status reports critical_alerts = 0,
\* warning_alerts = 1 and alert_count = 1, and its recommendations do not
\* include "Address critical alerts immediately".
C12_DryReadingIsWarning ==
    OneDryReadingOfThree =>
        /\ response.status = 200
        /\ response.data.farm_status.critical_alerts = 0
        /\ response.data.farm_status.warning_alerts = 1
        /\ response.data.farm_status.alert_count = 1
        /\ \A k \in DOMAIN response.data.farm_status.recommendations :
              response.data.farm_status.recommendations[k]
                  # "Address critical alerts immediately"

\* C12 witness: the dry reading is the second of three, and the three were
\* processed.
C12_Witness ==
    /\ OneDryReadingOfThree
    /\ input.body.sensors[2].value = 15
    /\ input.body.sensors[1].sensor_type = "dht_temperature"
    /\ response.status = 200
    /\ response.data.processed_count = 3
    /\ response.data.farm_status.warning_alerts = 1

\* the alerts of the given severity among the alerts of the processed sensors
ProcessedAlerts(severity) ==
    {<< i, k >> \in (1 .. MaxBatch) \X (1 .. 2) :
        /\ i \in DOMAIN response.data.processed_sensors
        /\ k \in DOMAIN response.data.processed_sensors[i].alerts
        /\ response.data.processed_sensors[i].alerts[k].severity = severity}

\* C15: in the farm status of a batch, critical_alerts and warning_alerts are
\* the numbers of alerts of that severity produced for the processed sensors
\* of the batch, and alert_count is their sum (a status without
\* warning_alerts, the one of a batch without processed sensors, counts zero
\* warnings).
C15_AlertCounts ==
    BatchDone /\ response.status = 200 =>
        LET status   == response.data.farm_status
            warnings == IF "warning_alerts" \in DOMAIN status
                        THEN status.warning_alerts ELSE 0
        IN  /\ status.critical_alerts = Cardinality(ProcessedAlerts("critical"))
            /\ warnings = Cardinality(ProcessedAlerts("warning"))
            /\ status.alert_count = status.critical_alerts + warnings
            /\ (response.data.processed_sensors # <<>> =>
                   "warning_alerts" \in DOMAIN status)

\* C15 witness: a batch with a reading below its minimum and two above their
\* maximum.
C15_Witness ==
    /\ BatchDone
    /\ response.status = 200
    /\ response.data.farm_status.critical_alerts = 2
    /\ response.data.farm_status.warning_alerts = 1
    /\ response.data.farm_status.alert_count = 3

\* positions in calls of the calls of the given kind
CallsOf(kind) == {n \in DOMAIN calls : calls[n].call = kind}

\* C16: within one batch request the weather snapshot and the forecast are
\* each fetched exactly once, before any sensor is processed; feature
\* extraction of every sensor gets that snapshot and insight generation of
\* every sensor gets that snapshot and that forecast, whatever the number of
\* sensors.
C16_WeatherFetchedOnce ==
    BatchDone /\ response.status = 200 =>
        /\ CallsOf("get_weather_data") = {1}
        /\ CallsOf("get_weather_forecast") = {2}
        /\ Cardinality(CallsOf("prepare_features_for_prediction"))
               = Len(input.body.sensors)
        /\ Cardinality(CallsOf("generate_insights")) = Len(input.body.sensors)
        /\ \A n \in CallsOf("prepare_features_for_prediction") :
              calls[n].weather = input.world[1]
        /\ \A n \in CallsOf("generate_insights") :
              /\ calls[n].weather = input.world[1]
              /\ calls[n].forecast = [source |-> input.world[1].source, days |-> 3]
        /\ response.data.weather_context = input.world[1]

\* C16 witness: three sensors were processed with the one snapshot.
C16_Witness ==
    /\ BatchDone
    /\ response.status = 200
    /\ Len(input.body.sensors) = 3
    /\ Len(calls) = 8
    /\ calls[7].sensor = 3
    /\ calls[7].weather = input.world[1]

\* C17 (as claimed): in a batch a reading that fails validation is rejected
\* alone; the batch is not aborted, the valid readings are processed in
\* input order with three predictions and three insights each, and
\* processed_count is the number of valid readings.
C17_InvalidReadingRejectedAlone ==
    BatchDone /\ (\E i \in DOMAIN input.body.sensors : ~ValidReading(i)) =>
        LET valid == {i \in DOMAIN input.body.sensors : ValidReading(i)}
        IN  /\ response.status = 200
            /\ response.data.processed_count = Cardinality(valid)
            /\ Len(response.data.processed_sensors) = Cardinality(valid)
            /\ \A k \in DOMAIN response.data.processed_sensors :
                  LET sensor == response.data.processed_sensors[k]
                  IN  /\ sensor.sensor_data.sensor_id \in valid
                      /\ Cardinality({i \in valid : i <= sensor.sensor_data.sensor_id}) = k
                      /\ DOMAIN sensor.predictions = {"irrigation", "crop_health", "yield"}
                      /\ DOMAIN sensor.insights = {"irrigation", "crop_health", "yield"}

\* reading i of a batch request, or the reading of a single request, fails
\* validation
RejectedInBatch(i) == BatchDone /\ i \in DOMAIN input.body.sensors /\ ~ValidReading(i)

RejectedSingle ==
    /\ op = "receive_sensor_data"
    /\ ~ValidReadingProcessed

\* C18: validation errors come back to the caller as a list: a rejected
\* single reading is answered with an error response that holds the list of
\* its errors, and the answer to a batch holds, for every rejected reading,
\* the errors of that reading.
C18_ErrorsReported ==
    /\ RejectedSingle =>
          /\ response.status \in {400, 422}
          /\ response.detail # <<>>
          /\ \A k \in DOMAIN response.detail : response.detail[k].loc = 1
    /\ \A i \in 1 .. MaxBatch :
          RejectedInBatch(i) =>
              /\ "detail" \in DOMAIN response
              /\ \E k \in DOMAIN response.detail : response.detail[k].loc = i

\* C18 witness: a batch whose first and third readings are rejected, and the
\* errors of both are in the answer.
C18_Witness ==
    /\ RejectedInBatch(1) /\ RejectedInBatch(3)
    /\ ~RejectedInBatch(2)
    /\ Len(response.detail) = 2
    /\ response.detail[2].loc = 3

(***************************************************************************)
(* validate_sensor_data on its own: DataProcessor.validate_sensor_data is  *)
(* a static method that any caller may apply to any dict.                  *)
(***************************************************************************)

\* a dict with the given keys out of the required fields
Reading(present, sensor_type, value, timestamp) ==
    [f \in present |->
        CASE f = "sensor_id"   -> "sensor"
          [] f = "sensor_type" -> sensor_type
          [] f = "value"       -> value
          [] f = "timestamp"   -> timestamp]

\* the bounds of the four ranges and the values next to them
ReadingValues == {-41, -40, -21, -20, -1, 0, 60, 61, 80, 81, 100, 101}

\* a datetime, a str that fromisoformat parses, a str that it does not
\* parse, a value that is neither str nor datetime
ReadingTimestamps ==
    {Timestamp(kind, 14, 305, 11) : kind \in {"datetime", "iso", "unparsable", "number"}}

ValidateInputs ==
    {Reading(present, sensor_type, value, timestamp) :
        present \in SUBSET {"sensor_id", "sensor_type", "value", "timestamp"},
        sensor_type \in SensorTypes \cup {"ph"},
        value \in ReadingValues,
        timestamp \in ReadingTimestamps}

ValidateSensorData ==
    /\ op = "idle"
    /\ \E data \in ValidateInputs :
          /\ op' = "validate_sensor_data"
          /\ arg' = "none"
          /\ input' = [data |-> data]
          /\ response' = ValidationResult(validate_sensor_data(data))
    /\ UNCHANGED << feedbackVars, llmVars, modelVars, alert_thresholds, raised, insight, calls,
                    prediction, alerts >>

InitValidate ==
    /\ openai_client = FALSE
    /\ gemini_model = FALSE
    /\ InitNoModels
    /\ alert_thresholds = DefaultThresholds
    /\ Idle
    /\ NoFeedback

NextValidate ==
    \/ ValidateSensorData
    \/ Return

SpecValidate == InitValidate /\ [][NextValidate]_vars

(***************************************************************************)
(* Claims about validate_sensor_data (checked under SpecValidate)          *)
(***************************************************************************)

ValidateDone == op = "validate_sensor_data"

Has(field) == field \in DOMAIN input.data

\* the reading has a known sensor type and a value, and the value is in the
\* inclusive range of the type
ValueWithin ==
    /\ Has("sensor_type") /\ Has("value")
    /\ \/ (input.data.sensor_type = "dht_temperature"
              /\ -40 <= input.data.value /\ input.data.value <= 80)
       \/ (input.data.sensor_type \in {"dht_humidity", "soil_moisture"}
              /\ 0 <= input.data.value /\ input.data.value <= 100)
       \/ (input.data.sensor_type = "soil_temperature"
              /\ -20 <= input.data.value /\ input.data.value <= 60)

\* the reading has a known sensor type and a value, and the value is outside
\* the range of the type
ValueOutside ==
    /\ Has("sensor_type") /\ Has("value")
    /\ input.data.sensor_type
           \in {"dht_temperature", "dht_humidity", "soil_moisture", "soil_temperature"}
    /\ ~ValueWithin

UnknownType ==
    /\ Has("sensor_type")
    /\ input.data.sensor_type
           \notin {"dht_temperature", "dht_humidity", "soil_moisture", "soil_temperature"}

BadTimestamp ==
    /\ Has("timestamp")
    /\ input.data.timestamp.kind \notin {"datetime", "iso"}

\* the returned list has an error about the quantity the sensor type measures
NamesQuantity ==
    \E k \in DOMAIN response[2] :
        response[2][k][1] =
            (CASE input.data.sensor_type = "dht_temperature"  -> "Temperature out of range: "
               [] input.data.sensor_type = "dht_humidity"     -> "Humidity out of range: "
               [] input.data.sensor_type = "soil_moisture"    -> "Soil moisture out of range: "
               [] input.data.sensor_type = "soil_temperature" -> "Soil temperature out of range: ")

\* C19 (as claimed): validate_sensor_data returns (true, empty list) for
\* every reading with all required fields, a known sensor type, a value in
\* the inclusive range of the type and a valid timestamp; for every reading
\* whose value is outside the range of its type it returns false with an
\* error naming the offending quantity.
C19_ValidAcceptedOutOfRangeNamed ==
    ValidateDone =>
        /\ (/\ \A f \in {"sensor_id", "sensor_type", "value", "timestamp"} : Has(f)
            /\ ValueWithin
            /\ ~BadTimestamp
            => response = << TRUE, <<>> >>)
        /\ (ValueOutside => response[1] = FALSE /\ NamesQuantity)

\* C20 (as claimed): validate_sensor_data collects all failing checks: the
\* returned list holds an error for every missing required field, for an
\* unknown sensor type, for an out-of-range value and for an invalid
\* timestamp, also when several of them fail at once.
C20_AllFailingChecksCollected ==
    ValidateDone =>
        /\ \A f \in {"sensor_id", "sensor_type", "value", "timestamp"} :
              ~Has(f) => \E k \in DOMAIN response[2] :
                            response[2][k] = << "Missing required field: ", f >>
        /\ (UnknownType => \E k \in DOMAIN response[2] :
                              response[2][k][1] = "Invalid sensor type: ")
        /\ (ValueOutside => NamesQuantity)
        /\ (BadTimestamp => \E k \in DOMAIN response[2] :
                               response[2][k] = << "Invalid timestamp format" >>)

(***************************************************************************)
(* prepare_features_for_prediction on its own: a static method that any    *)
(* caller may apply to any reading dict, with or without weather.          *)
(***************************************************************************)

FeatureFields == {"temperature", "humidity", "soil_moisture", "soil_temperature", "timestamp"}

\* a reading dict with the given keys
FeatureReading(present, temperature, timestamp) ==
    [f \in present |->
        CASE f = "temperature"      -> temperature
          [] f = "humidity"         -> 60
          [] f = "soil_moisture"    -> 30
          [] f = "soil_temperature" -> 12
          [] f = "timestamp"        -> timestamp]

\* air temperatures of the valid range -40..80
FeatureTemperatures == {-40, -1, 0, 25}

\* a datetime, a str that fromisoformat parses, a str that it does not parse
FeatureTimestamps ==
    {Timestamp(kind, 9, 120, 4) : kind \in {"datetime", "iso", "unparsable"}}

\* no weather, the two snapshots, a snapshot without precipitation
FeatureWeather ==
    {NoWeather, [source |-> "openweather", wind_speed |-> 6]} \cup WeatherSnapshots

PrepareFeatures ==
    /\ op = "idle"
    /\ \E present \in SUBSET FeatureFields, temperature \in FeatureTemperatures,
          timestamp \in FeatureTimestamps, weather_data \in FeatureWeather,
          now \in Instants :
          /\ op' = "prepare_features_for_prediction"
          /\ arg' = "none"
          /\ input' = [sensor_data  |-> FeatureReading(present, temperature, timestamp),
                       weather_data |-> weather_data,
                       utcnow       |-> UtcNow(now)]
          /\ response' = prepare_features_for_prediction(
                             FeatureReading(present, temperature, timestamp),
                             weather_data, UtcNow(now))
    /\ UNCHANGED << feedbackVars, llmVars, modelVars, alert_thresholds, raised, insight, calls,
                    prediction, alerts >>

InitFeatures ==
    /\ openai_client = FALSE
    /\ gemini_model = FALSE
    /\ InitNoModels
    /\ alert_thresholds = DefaultThresholds
    /\ Idle
    /\ NoFeedback

NextFeatures ==
    \/ PrepareFeatures
    \/ Return

SpecFeatures == InitFeatures /\ [][NextFeatures]_vars

(***************************************************************************)
(* Claims about prepare_features_for_prediction (checked under             *)
(* SpecFeatures)                                                           *)
(***************************************************************************)

FeaturesDone == op = "prepare_features_for_prediction"

\* the value of a field of the reading, or the default when it is absent
FieldOr(field, default) ==
    IF field \in DOMAIN input.sensor_data THEN input.sensor_data[field] ELSE default

\* the timestamp of the reading is absent, a datetime or a parsable str
UsableTimestamp ==
    "timestamp" \in DOMAIN input.sensor_data =>
        input.sensor_data.timestamp.kind \in {"datetime", "iso"}

\* C21 (as claimed): prepare_features_for_prediction returns exactly 11
\* features in the order temperature, humidity, soil_moisture,
\* soil_temperature, precipitation, wind_speed, temp_humidity_interaction,
\* moisture_temp_ratio, hour, day_of_year, month, for every subset of the
\* optional fields of the reading and with or without weather, absent
\* fields taking the defaults 20, 50, 50, 18, 0 and 3.
C21_ElevenFeaturesInOrder ==
    FeaturesDone /\ UsableTimestamp =>
        /\ ~response.raised
        /\ Len(response.value) = 1
        /\ Len(response.value[1]) = 11
        /\ response.value[1][1] = FieldOr("temperature", 20)
        /\ response.value[1][2] = FieldOr("humidity", 50)
        /\ response.value[1][3] = FieldOr("soil_moisture", 50)
        /\ response.value[1][4] = FieldOr("soil_temperature", 18)
        /\ response.value[1][5] =
               (IF "precipitation" \in DOMAIN input.weather_data
                THEN input.weather_data.precipitation ELSE 0)
        /\ response.value[1][6] =
               (IF "wind_speed" \in DOMAIN input.weather_data
                THEN input.weather_data.wind_speed ELSE 3)
        /\ response.value[1][7] = (response.value[1][1] * response.value[1][2]) \div 100
        /\ response.value[1][8] = response.value[1][3] \div (response.value[1][1] + 1)
        /\ response.value[1][9] = FieldOr("timestamp", input.utcnow).hour
        /\ response.value[1][10] = FieldOr("timestamp", input.utcnow).day_of_year
        /\ response.value[1][11] = FieldOr("timestamp", input.utcnow).month

(***************************************************************************)
(* The threshold table of the process: the one AlertManager of sensors.py  *)
(* is read by the endpoints and written by update_thresholds.              *)
(***************************************************************************)

InitThresholds ==
    /\ openai_client = FALSE
    /\ gemini_model = FALSE
    /\ InitNoModels
    /\ alert_thresholds = DefaultThresholds
    /\ Idle
    /\ NoFeedback

NextThresholds ==
    \/ UpdateThresholds
    \/ CheckAlerts
    \/ ReceiveSensorData
    \/ ReceiveBatchSensorData
    \/ Return

SpecThresholds == InitThresholds /\ [][NextThresholds]_vars

(***************************************************************************)
(* Claims about the threshold table (checked under SpecThresholds)         *)
(***************************************************************************)

\* the step is a call update_thresholds(arg', input'[1], input'[2])
UpdateStep == op = "idle" /\ op' = "update_thresholds"

\* C22: the threshold table changes only through update_thresholds:
\* check_alerts and the pipeline operations leave it as it is,
\* update_thresholds on a sensor type of the table replaces the {min, max}
\* entry of that type alone, and update_thresholds on any other sensor type
\* changes nothing.
C22_ThresholdsFrame ==
    [][ /\ (~UpdateStep => alert_thresholds' = alert_thresholds)
        /\ (UpdateStep /\ arg' \in {"temperature", "humidity", "soil_moisture",
                                    "soil_temperature"} =>
               /\ DOMAIN alert_thresholds' = DOMAIN alert_thresholds
               /\ alert_thresholds'[arg'] = [min |-> input'[1], max |-> input'[2]]
               /\ \A k \in DOMAIN alert_thresholds \ {arg'} :
                     alert_thresholds'[k] = alert_thresholds[k])
        /\ (UpdateStep /\ arg' \notin {"temperature", "humidity", "soil_moisture",
                                       "soil_temperature"} =>
               alert_thresholds' = alert_thresholds) ]_vars

\* C22 witness: the temperature entry was replaced, the other entries are
\* the default ones, and a reading went through the pipeline afterwards.
C22_Witness ==
    /\ op = "receive_sensor_data"
    /\ response.status = 200
    /\ alert_thresholds.temperature = [min |-> 30, max |-> 10]
    /\ alert_thresholds.humidity = [min |-> 20, max |-> 90]
    /\ alert_thresholds.soil_moisture = [min |-> 20, max |-> 80]
    /\ alert_thresholds.soil_temperature = [min |-> 5, max |-> 30]

(***************************************************************************)
(* A generate_*_insight call step by step: the call to the provider's      *)
(* client (chat.completions.create / generate_content) is made without a   *)
(* timeout argument and the handler waits in it until the client returns   *)
(* or raises.                                                              *)
(***************************************************************************)

\* what the client raises when it gives a request up
GivenUp == Outcome(TRUE, NoText)

\* the provider's side of one request: it answers (with a text or an error)
\* or it never answers
ProviderAnswersSet ==
    {[responds |-> TRUE, outcome |-> out] : out \in CallOutcomes}
    \cup {[responds |-> FALSE, outcome |-> GivenUp]}

\* the client the try block dispatches to
Dispatched == IF openai_client THEN "openai" ELSE "gemini"

\* the handler enters _generate_with_openai / _generate_with_gemini and
\* waits for the client
CallProvider ==
    /\ op = "idle"
    /\ \E insight_type \in Targets, answer \in ProviderAnswersSet :
          /\ op' = "awaiting_provider"
          /\ arg' = insight_type
          /\ input' = [provider |-> Dispatched, answer |-> answer]
    /\ UNCHANGED << feedbackVars, llmVars, modelVars, alert_thresholds, raised, insight, calls,
                    prediction, alerts, response >>

\* the provider answers and the client returns the text or raises the error
ProviderAnswers ==
    /\ op = "awaiting_provider"
    /\ input.answer.responds
    /\ op' = "provider_done"
    /\ UNCHANGED << feedbackVars, llmVars, modelVars, alert_thresholds, arg, input, raised, insight,
                    calls, prediction, alerts, response >>

\* the client library gives the request up on its own and raises; the source
\* asks for no such limit, so nothing obliges the library to do so
ClientGivesUp ==
    /\ op = "awaiting_provider"
    /\ ~input.answer.responds
    /\ op' = "provider_done"
    /\ input' = [input EXCEPT !.answer = [responds |-> TRUE, outcome |-> GivenUp]]
    /\ UNCHANGED << feedbackVars, llmVars, modelVars, alert_thresholds, arg, raised, insight,
                    calls, prediction, alerts, response >>

\* the rest of generate_*_insight once the client has returned or raised:
\* the text is parsed, or the except block returns the fallback
FinishInsight ==
    /\ op = "provider_done"
    /\ \E now \in Instants :
          \E r \in {generate_insight(arg,
                        [openai |-> input.answer.outcome,
                         gemini |-> input.answer.outcome], now)} :
              /\ op' = "generate_insight"
              /\ raised' = r.raised
              /\ insight' = r.insight
              /\ calls' = r.calls
    /\ UNCHANGED << feedbackVars, llmVars, modelVars, alert_thresholds, arg, input, prediction,
                    alerts, response >>

\* the insight is handed to the caller once generate_*_insight has returned
InsightReturned ==
    /\ op = "generate_insight"
    /\ Return

\* LLMService with at least one client configured
InitProviderCall ==
    /\ InitInsight
    /\ openai_client \/ gemini_model

NextProviderCall ==
    \/ CallProvider
    \/ ProviderAnswers
    \/ ClientGivesUp
    \/ FinishInsight
    \/ InsightReturned

\* the handler's own steps are taken when they can be taken
SpecProviderCall ==
    /\ InitProviderCall
    /\ [][NextProviderCall]_vars
    /\ WF_vars(ProviderAnswers)
    /\ WF_vars(FinishInsight)
    /\ WF_vars(InsightReturned)

(***************************************************************************)
(* Claims about the provider call (checked under SpecProviderCall)         *)
(***************************************************************************)

\* C23 (as claimed): every provider call is bounded by a timeout, so a
\* generate-insight call that waits for a configured provider eventually
\* returns an insight, also when the provider never responds.
C23_InsightEventuallyReturned ==
    (op = "awaiting_provider") ~> (op = "generate_insight" /\ insight # <<>>)

(***************************************************************************)
(* Claims about the normalization of mapping content (checked under        *)
(* SpecInsight)                                                            *)
(***************************************************************************)

\* the provider called by the operation returned a JSON object whose content
\* is a mapping
MappingContentReturned ==
    /\ InsightDone
    /\ Len(calls) = 1
    /\ calls[1].outcome = "returned"
    /\ ~calls[1].text.none
    /\ calls[1].text.fence \/ calls[1].text.brace
    /\ calls[1].text.wf
    /\ calls[1].text.isObj
    /\ \E i \in DOMAIN calls[1].text.obj :
          /\ calls[1].text.obj[i].k = "content"
          /\ calls[1].text.obj[i].v.t = "dict"

\* the entries of the mapping returned as content
ReturnedMapping ==
    calls[1].text.obj[CHOOSE i \in DOMAIN calls[1].text.obj :
                          calls[1].text.obj[i].k = "content"].v.items

\* C24 (as claimed): normalizing a provider response whose JSON content is a
\* mapping yields as content the entries "key: value" in mapping order,
\* joined by "; ", for every mapping of keys to values.
C24_MappingContentFlattened ==
    MappingContentReturned =>
        \E i \in DOMAIN insight :
            /\ insight[i].k = "content"
            /\ insight[i].v.t = "str"
            /\ insight[i].v.s =
                   Join([n \in 1 .. Len(ReturnedMapping) |->
                            ReturnedMapping[n].k \o << ":", " " >>
                            \o PyStr(ReturnedMapping[n].v)],
                        << ";", " " >>)

(***************************************************************************)
(* Claims about the readings in the two pipelines (checked under           *)
(* SpecBatch, which holds both endpoints)                                  *)
(***************************************************************************)

\* the quantity a sensor type measures, as the threshold table names it
MeasuredQuantity(sensor_type) ==
    CASE sensor_type = "dht_temperature"  -> "temperature"
      [] sensor_type = "dht_humidity"     -> "humidity"
      [] sensor_type = "soil_moisture"    -> "soil_moisture"
      [] sensor_type = "soil_temperature" -> "soil_temperature"

\* the value of the reading is outside the thresholds of its quantity
OutsideThresholds(reading) ==
    \/ reading.value < alert_thresholds[MeasuredQuantity(reading.sensor_type)].min
    \/ reading.value > alert_thresholds[MeasuredQuantity(reading.sensor_type)].max

\* C25 (as claimed): in the single-reading and the batch pipeline, a
\* validated reading of any of the four sensor types whose value lies
\* outside the thresholds of its type produces an alert.
C25_OutOfThresholdReadingAlerts ==
    /\ (op = "receive_sensor_data" /\ response.status = 200
            /\ OutsideThresholds(response.data.sensor_data)
        => response.data.alerts # <<>>)
    /\ (BatchDone /\ response.status = 200 =>
            \A k \in DOMAIN response.data.processed_sensors :
                OutsideThresholds(response.data.processed_sensors[k].sensor_data)
                    => response.data.processed_sensors[k].alerts # <<>>)

\* positions in calls of the feature extractions of the operation
FeatureCalls ==
    {n \in DOMAIN calls :
        /\ "call" \in DOMAIN calls[n]
        /\ calls[n].call = "prepare_features_for_prediction"}

\* one of the two pipelines has processed its readings
Processed ==
    /\ op \in {"receive_sensor_data", "receive_batch_sensor_data"}
    /\ response.status = 200

\* C26 (as claimed): in the single-reading and in the batch pipeline the
\* weather snapshot is obtained before feature extraction and passed to it,
\* so the precipitation and wind_speed features of every processed reading
\* are those of the request's weather snapshot.
C26_FeaturesUseWeatherSnapshot ==
    Processed =>
        \A n \in FeatureCalls :
            /\ \E m \in 1 .. (n - 1) :
                  /\ "call" \in DOMAIN calls[m]
                  /\ calls[m].call = "get_weather_data"
            /\ calls[n].weather = response.data.weather_context
            /\ calls[n].features[1][5] = response.data.weather_context.precipitation
            /\ calls[n].features[1][6] = response.data.weather_context.wind_speed

\* C27: in both pipelines the first four features handed to the models are
\* the defaults 20, 50, 50, 18 for every reading, whatever its sensor_type
\* and value, so the features derived from them do not depend on the reading
\* either.
C27_FeaturesIgnoreReading ==
    Processed =>
        \A n \in FeatureCalls :
            /\ SubSeq(calls[n].features[1], 1, 4) = << 20, 50, 50, 18 >>
            /\ calls[n].features[1][7] = 10
            /\ calls[n].features[1][8] = 2

\* C27 witness: a batch with a dry soil reading and an air temperature, both
\* processed with the same feature row.
C27_Witness ==
    /\ BatchDone
    /\ response.status = 200
    /\ Len(input.body.sensors) = 2
    /\ input.body.sensors[1].sensor_type = "soil_moisture"
    /\ input.body.sensors[1].value = 15
    /\ input.body.sensors[2].sensor_type = "dht_temperature"
    /\ FeatureCalls = {3, 5}
    /\ calls[3].features = calls[5].features
    /\ calls[3].features[1][3] = 50

(***************************************************************************)
(* Claims about model loading (checked under SpecPredict)                  *)
(***************************************************************************)

\* the artifact files of a target
ModelFile(target) ==
    CASE target = "irrigation"  -> "irrigation_model.pkl"
      [] target = "crop_health" -> "crop_health_model.pkl"
      [] target = "yield"       -> "yield_model.pkl"

ScalerFile(target) ==
    CASE target = "irrigation"  -> "irrigation_scaler.pkl"
      [] target = "crop_health" -> "crop_health_scaler.pkl"
      [] target = "yield"       -> "yield_scaler.pkl"

\* C28 (as claimed): model loading is independent per target: a target whose
\* model and scaler files both exist and load without error is served by its
\* real model (model_name neither "default" nor "error") when scaling and
\* inference succeed, also when loading a file of another target fails.
C28_LoadingIndependentPerTarget ==
    /\ PredictDone
    /\ models_dir[ModelFile(arg)] = "ok"
    /\ models_dir[ScalerFile(arg)] = "ok"
    /\ ~InferenceFailed
    => /\ ~raised
       /\ prediction.model_name \notin {"default", "error"}

(***************************************************************************)
(* check_alerts step by step, with update_thresholds of a concurrent       *)
(* request running between its steps.  The frame of the running call       *)
(* (its locals) is kept in input; calls is the trace of the concurrent     *)
(* update_thresholds calls.                                                *)
(***************************************************************************)

\* update_thresholds calls that may run during one check_alerts call
MaxUpdates == 2

ConcurrentReadings ==
    {[k \in {"soil_moisture"} |-> v] : v \in {15, 25, 50, 85}}
    \cup {[k \in {"temperature", "soil_moisture"} |-> v] : v \in {2, 95}}

ConcurrentArgs == { << 10, 30 >>, << 30, 90 >> }

\* Mutant of BoundThresholds: the comparisons read the entry of the table
\* at the time they run.
BoundThresholds_live(frame, table, sensor_type) == table[sensor_type]

\* `thresholds` of the loop: the dict the iteration step bound
BoundThresholds(frame, table, sensor_type) == frame.thresholds

Frame(sensor_data, now, first, i, at, thresholds, min_read, compared) ==
    [sensor_data |-> sensor_data, now |-> now, first |-> first, i |-> i, at |-> at,
     thresholds |-> thresholds, min_read |-> min_read, compared |-> compared]

\* check_alerts is entered: alerts = [] and the iteration starts
BeginCheck ==
    /\ op = "idle"
    /\ \E sensor_data \in ConcurrentReadings, now \in Instants :
          /\ op' = "check_alerts_running"
          /\ input' = Frame(sensor_data, now, alert_thresholds, 1, "for",
                            Threshold(0, 0), 0, <<>>)
    /\ UNCHANGED << feedbackVars, llmVars, modelVars, alert_thresholds, arg, raised, insight,
                    calls, prediction, alerts, response >>

\* one step of `for sensor_type, thresholds in self.alert_thresholds.items()`
\* with the test `sensor_type in sensor_data`
NextItem ==
    /\ op = "check_alerts_running"
    /\ input.at = "for"
    /\ IF input.i > Len(ThresholdKeys)
       THEN /\ op' = "check_alerts"
            /\ input' = input
       ELSE /\ op' = op
            /\ input' =
                 IF ThresholdKeys[input.i] \in DOMAIN input.sensor_data
                 THEN [input EXCEPT !.thresholds = alert_thresholds[ThresholdKeys[input.i]],
                                    !.at = "min"]
                 ELSE [input EXCEPT !.thresholds = alert_thresholds[ThresholdKeys[input.i]],
                                    !.i = @ + 1]
    /\ UNCHANGED << feedbackVars, llmVars, modelVars, alert_thresholds, arg, raised, insight,
                    calls, prediction, alerts, response >>

\* `if value < thresholds['min']`
CompareMin ==
    /\ op = "check_alerts_running"
    /\ input.at = "min"
    /\ LET sensor_type == ThresholdKeys[input.i]
           value       == input.sensor_data[sensor_type]
           threshold   == BoundThresholds(input, alert_thresholds, sensor_type).min
       IN  /\ alerts' = IF value < threshold
                        THEN Append(alerts, LowAlert(sensor_type, value, threshold,
                                                     input.now))
                        ELSE alerts
           /\ input' = [input EXCEPT !.at = "max", !.min_read = threshold]
    /\ UNCHANGED << feedbackVars, llmVars, modelVars, alert_thresholds, op, arg, raised, insight,
                    calls, prediction, response >>

\* `if value > thresholds['max']`
CompareMax ==
    /\ op = "check_alerts_running"
    /\ input.at = "max"
    /\ LET sensor_type == ThresholdKeys[input.i]
           value       == input.sensor_data[sensor_type]
           threshold   == BoundThresholds(input, alert_thresholds, sensor_type).max
       IN  /\ alerts' = IF value > threshold
                        THEN Append(alerts, HighAlert(sensor_type, value, threshold,
                                                      input.now))
                        ELSE alerts
           /\ input' = [input EXCEPT
                          !.at = "for", !.i = @ + 1,
                          !.compared = Append(@, [sensor_type |-> sensor_type,
                                                  entry |-> Threshold(input.min_read,
                                                                      threshold)])]
    /\ UNCHANGED << feedbackVars, llmVars, modelVars, alert_thresholds, op, arg, raised, insight,
                    calls, prediction, response >>

\* update_thresholds of another request runs between two steps of the check
ConcurrentUpdate ==
    /\ op = "check_alerts_running"
    /\ Len(calls) < MaxUpdates
    /\ \E sensor_type \in {"soil_moisture", "dht_temperature"}, mm \in ConcurrentArgs :
          /\ alert_thresholds' =
                 update_thresholds(alert_thresholds, sensor_type, mm[1], mm[2])
          /\ calls' = Append(calls, [service |-> "update_thresholds",
                                     sensor_type |-> sensor_type,
                                     entry |-> Threshold(mm[1], mm[2])])
    /\ UNCHANGED << feedbackVars, llmVars, modelVars, op, arg, input, raised, insight, prediction,
                    alerts, response >>

AlertsReturned == op = "check_alerts" /\ Return

NextConcurrent ==
    \/ BeginCheck
    \/ NextItem
    \/ CompareMin
    \/ CompareMax
    \/ ConcurrentUpdate
    \/ AlertsReturned

SpecConcurrent == InitAlerts /\ [][NextConcurrent]_vars

(***************************************************************************)
(* Claims about concurrent threshold updates (checked under SpecConcurrent)*)
(***************************************************************************)

\* the entries the table held for a sensor type during the running call
EntriesDuring(sensor_type) ==
    {input.first[sensor_type]}
    \cup {calls[j].entry : j \in {n \in DOMAIN calls : calls[n].sensor_type = sensor_type}}

\* the alerts a comparison of the value with one {min, max} entry gives
AlertsWith(sensor_type, entry) ==
    AlertsFor([k \in {sensor_type} |-> entry], sensor_type, input.sensor_data, input.now)

\* C29: when update_thresholds of a concurrent request runs between the
\* steps of check_alerts, each value is compared with the min and the max of
\* one entry the table held for its type (the one before or the one after
\* an update), never with the min of one entry and the max of another, and
\* the alerts of a one-reading call are those of that entry.
C29_ConsistentThresholdPair ==
    op \in {"check_alerts_running", "check_alerts"} =>
        /\ \A n \in DOMAIN input.compared :
              input.compared[n].entry \in EntriesDuring(input.compared[n].sensor_type)
        /\ (op = "check_alerts" /\ Len(input.compared) = 1 =>
               alerts = AlertsWith(input.compared[1].sensor_type,
                                   input.compared[1].entry))

\* C29 witness: the soil-moisture entry was replaced between the comparison
\* with the minimum and the comparison with the maximum of a finished call;
\* the call compared 85 with the entry it had bound, {20, 80}, and alerted.
C29_Witness ==
    /\ op = "check_alerts"
    /\ input.sensor_data = [k \in {"soil_moisture"} |-> 85]
    /\ Len(calls) = 1
    /\ calls[1].sensor_type = "soil_moisture"
    /\ calls[1].entry = Threshold(30, 90)
    /\ alert_thresholds["soil_moisture"] = Threshold(30, 90)
    /\ input.compared = << [sensor_type |-> "soil_moisture", entry |-> Threshold(20, 80)] >>
    /\ Len(alerts) = 1
    /\ alerts[1].type = "high_threshold"

(***************************************************************************)
(* Feedback (app/api/feedback.py), file-storage mode (USE_FIRESTORE False) *)
(* The handler runs atomically; the tasks it hands to BackgroundTasks run  *)
(* afterwards in worker threads, the tasks of one submission in order and  *)
(* the tasks of different submissions interleaved statement by statement.  *)
(***************************************************************************)

\* submissions in one run
MaxSubmissions == 2

\* FeedbackData instances (the schema admits user_rating 1..5); is_correct
\* is None, True or False
FeedbackRatings == {2, 3}

FeedbackCorrect == {"None", "True", "False"}

FeedbackData(feedback_id, user_rating, is_correct) ==
    [feedback_id |-> feedback_id, user_rating |-> user_rating,
     is_correct |-> is_correct]

\* `feedback.user_rating <= 2 or (feedback.is_correct is False)`
NeedsRetraining(feedback) ==
    feedback.user_rating <= 2 \/ feedback.is_correct = "False"

Task(func, feedback_data, at) ==
    [func |-> func, feedback_data |-> feedback_data, at |-> at, queue |-> <<>>]

\* the tasks submit_feedback adds for one feedback
TasksOf(feedback_dict) ==
    << Task("_save_feedback", feedback_dict, "start") >>
    \o (IF NeedsRetraining(feedback_dict)
        THEN << Task("_queue_for_retraining", feedback_dict, "start") >>
        ELSE <<>>)

\* the entry _queue_for_retraining appends to the queue
QueueEntry(feedback_data, now) ==
    [feedback_id |-> feedback_data.feedback_id,
     queued_at |-> IsoFormat(now),
     priority |-> IF feedback_data.user_rating <= 2 THEN "high" ELSE "medium",
     model_types |-> << "irrigation", "crop_health", "yield" >>]

\* feedbacks submitted so far (each submission adds one _save_feedback task)
Submitted ==
    {background_tasks[n].feedback_data :
        n \in {m \in DOMAIN background_tasks :
                  background_tasks[m].func = "_save_feedback"}}

Finished(task) == task.at \in {"done", "failed"}

\* BackgroundTasks runs the tasks of one response one after the other
Runnable(n) ==
    /\ ~Finished(background_tasks[n])
    /\ \A m \in 1 .. n - 1 :
          background_tasks[m].feedback_data.feedback_id
              = background_tasks[n].feedback_data.feedback_id
          => Finished(background_tasks[m])

\* POST /api/feedback/submit
SubmitFeedback ==
    /\ op = "idle"
    /\ Cardinality(Submitted) < MaxSubmissions
    /\ \E user_rating \in FeedbackRatings, is_correct \in FeedbackCorrect,
          now \in Instants :
          LET feedback == FeedbackData(Cardinality(Submitted) + 1, user_rating,
                                       is_correct)
          IN  /\ op' = "submit_feedback"
              /\ input' = feedback
              /\ IF ~(1 <= user_rating /\ user_rating <= 5)
                 THEN /\ response' = [status |-> 400, success |-> FALSE]
                      /\ background_tasks' = background_tasks
                 ELSE /\ response' =
                            [status |-> 200, success |-> TRUE,
                             message |-> "Feedback submitted successfully",
                             data |-> [feedback_id |-> feedback.feedback_id,
                                       processed_at |-> IsoFormat(now),
                                       queued_for_retraining |->
                                           NeedsRetraining(feedback)]]
                      /\ background_tasks' = background_tasks \o TasksOf(feedback)
    /\ UNCHANGED << llmVars, modelVars, alert_thresholds, retraining_queue_file,
                    arg, raised, insight, calls, prediction, alerts >>

FeedbackReturned == op = "submit_feedback" /\ Return

\* a task moves to position `at` with local list `queue`
TaskStep(n, at, queue) ==
    background_tasks' = [background_tasks EXCEPT ![n].at = at, ![n].queue = queue]

\* _save_feedback writes feedback_<feedback_id>.json, a file of its own
SaveFeedback ==
    /\ \E n \in DOMAIN background_tasks :
          /\ Runnable(n)
          /\ background_tasks[n].func = "_save_feedback"
          /\ TaskStep(n, "done", <<>>)
    /\ UNCHANGED << llmVars, modelVars, alert_thresholds, retraining_queue_file,
                    perCallVars >>

\* `queue = []` and `if os.path.exists(retraining_queue_file)`
QueueExists ==
    /\ \E n \in DOMAIN background_tasks :
          /\ Runnable(n)
          /\ background_tasks[n].func = "_queue_for_retraining"
          /\ background_tasks[n].at = "start"
          /\ TaskStep(n, IF retraining_queue_file.state = "absent"
                         THEN "append" ELSE "load", <<>>)
    /\ UNCHANGED << llmVars, modelVars, alert_thresholds, retraining_queue_file,
                    perCallVars >>

\* `with open(file, 'r') as f: queue = json.load(f)`; a file another task
\* has opened for writing and not yet written holds no JSON document, the
\* load raises and the task ends in its except clause
QueueLoad ==
    /\ \E n \in DOMAIN background_tasks :
          /\ background_tasks[n].func = "_queue_for_retraining"
          /\ background_tasks[n].at = "load"
          /\ IF retraining_queue_file.state = "json"
             THEN TaskStep(n, "append", retraining_queue_file.queue)
             ELSE TaskStep(n, "failed", <<>>)
    /\ UNCHANGED << llmVars, modelVars, alert_thresholds, retraining_queue_file,
                    perCallVars >>

\* `queue.append({...})`
QueueAppend ==
    /\ \E n \in DOMAIN background_tasks, now \in Instants :
          /\ background_tasks[n].func = "_queue_for_retraining"
          /\ background_tasks[n].at = "append"
          /\ TaskStep(n, "open",
                      Append(background_tasks[n].queue,
                             QueueEntry(background_tasks[n].feedback_data, now)))
    /\ UNCHANGED << llmVars, modelVars, alert_thresholds, retraining_queue_file,
                    perCallVars >>

\* `with open(file, 'w') as f`: the file is created or truncated
QueueOpen ==
    /\ \E n \in DOMAIN background_tasks :
          /\ background_tasks[n].func = "_queue_for_retraining"
          /\ background_tasks[n].at = "open"
          /\ TaskStep(n, "dump", background_tasks[n].queue)
    /\ retraining_queue_file' = [state |-> "truncated", queue |-> <<>>]
    /\ UNCHANGED << llmVars, modelVars, alert_thresholds, perCallVars >>

\* `json.dump(queue, f, indent=2)` and the file is closed
QueueDump ==
    /\ \E n \in DOMAIN background_tasks :
          /\ background_tasks[n].func = "_queue_for_retraining"
          /\ background_tasks[n].at = "dump"
          /\ TaskStep(n, "done", background_tasks[n].queue)
          /\ retraining_queue_file' =
                 [state |-> "json", queue |-> background_tasks[n].queue]
    /\ UNCHANGED << llmVars, modelVars, alert_thresholds, perCallVars >>

InitFeedback ==
    /\ openai_client = FALSE
    /\ gemini_model = FALSE
    /\ InitNoModels
    /\ alert_thresholds = DefaultThresholds
    /\ Idle
    /\ NoFeedback

NextFeedback ==
    \/ SubmitFeedback
    \/ FeedbackReturned
    \/ SaveFeedback
    \/ QueueExists
    \/ QueueLoad
    \/ QueueAppend
    \/ QueueOpen
    \/ QueueDump

SpecFeedback == InitFeedback /\ [][NextFeedback]_vars

(***************************************************************************)
(* Claims about the retraining queue (checked under SpecFeedback)          *)
(***************************************************************************)

\* every background task has run to its end
Quiescent == \A n \in DOMAIN background_tasks : Finished(background_tasks[n])

\* the entries of the queue file for one feedback
EntriesOf(feedback) ==
    {n \in DOMAIN retraining_queue_file.queue :
        retraining_queue_file.queue[n].feedback_id = feedback.feedback_id}

\* C30 (as claimed): in file-storage mode, once the background tasks have
\* run, every feedback submitted with user_rating <= 2 or is_correct False is
\* exactly one entry of the retraining queue, with priority "high" exactly
\* when user_rating <= 2, also when the _queue_for_retraining tasks of
\* several submissions interleave their read-modify-write of the queue file.
C30_EveryFlaggedFeedbackQueuedOnce ==
    Quiescent =>
        \A feedback \in Submitted :
            NeedsRetraining(feedback) =>
                /\ retraining_queue_file.state = "json"
                /\ Cardinality(EntriesOf(feedback)) = 1
                /\ \A n \in EntriesOf(feedback) :
                      retraining_queue_file.queue[n].priority = "high"
                          <=> feedback.user_rating <= 2

====
